---- MODULE Spec2Model ----
(***************************************************************************)
(* Sentinel SOC: the credential service (contexts/AuthContext.tsx), the   *)
(* storage engine it persists to (services/dbService.ts) and the storage   *)
(* operations the dashboard (App.tsx) issues for the operator logged in.   *)
(*                                                                         *)
(* Strings are sequences of code points, so that String.toUpperCase and    *)
(* TextEncoder.encode are computed rather than assumed.  Byte buffers are  *)
(* sequences of 0..255.  Base64 text is the sequence of the indexes of its *)
(* characters in the base64 alphabet (64 is the padding character '=').    *)
(***************************************************************************)
EXTENDS Integers, Sequences, FiniteSets, TLC

\* ------------------------------------------------------------------ bounds

\* Number of login/register invocations a behaviour holds.
MaxCalls == 2
\* The clock is observed at the multiples of the session window up to this one
\* (and at the times the timers of login fire).
MaxDays == 1
\* Work factor of a user record written by an earlier build of the application.
LegacyIterations == 50000
\* Number of storage-engine invocations a behaviour of the dashboard holds.
MaxOps == 2
\* Number of callers of DatabaseService.init a behaviour holds.
MaxCallers == 3
\* Number of handlers of App (processFile, removeAnalysis, Clear) a behaviour holds.
MaxJobs == 3

\* ------------------------------------------------------- program constants

PBKDF2_ITERATIONS == 100000
SESSION_WINDOW == 1000 * 60 * 60 * 24
UNKNOWN_ID_DELAY == 1000
VALIDATE_DELAY == 800
SALT_BYTES == 16
DERIVED_BITS == 256
\* Block size of HMAC-SHA-256, the PRF that PBKDF2 is run with.
HMAC_BLOCK == 64
\* Default of getRecentLogs' limit parameter.
DEFAULT_LIMIT == 20
DB_VERSION == 2

\* null for a string-valued slot (no code point is negative).
NULL == <<-1>>
NoUser == [absent |-> TRUE]
NoSession == [absent |-> TRUE]
NoHash == [absent |-> TRUE]
NoError == "null"

\* ------------------------------------------------------------------ inputs

\* "s1", "S1", "x": the form's id field is `required`, so ids are non-empty.
RawIds == {<<115, 49>>, <<83, 49>>, <<120>>}
\* "p", "P", and "p" followed by U+0000.
Passkeys == {<<112>>, <<80>>, <<112, 0>>}
\* Two outcomes of crypto.getRandomValues(new Uint8Array(16)).
Salts == {[i \in 1..SALT_BYTES |-> (7 * i) % 256],
          [i \in 1..SALT_BYTES |-> (251 - 13 * i) % 256]}
\* Two outcomes of Math.random().toString(36).substr(2, 5).
RandomSuffixes == {"k3f9a", "0zq1x"}

\* Operators the dashboard works for: "X" and "S1".
Operators == {<<88>>, <<83, 49>>}
\* Ids of analyses: "A", "B".
InvIds == {<<65>>, <<66>>}
\* Limits getRecentLogs is called with.
Limits == {1, DEFAULT_LIMIT}

Calls == 1..MaxCalls
Ops == 1..MaxOps
Callers == 1..MaxCallers
Jobs == 1..MaxJobs
ClockGrid == {d * SESSION_WINDOW : d \in 0..MaxDays}

\* ------------------------------------------------------------ pure helpers

Max(a, b) == IF a >= b THEN a ELSE b

\* An id that is stored and looked up as typed.
toUpperCase_Identity(s) == s

\* String.prototype.toUpperCase on the ASCII range.
UpperChar(c) == IF c >= 97 /\ c <= 122 THEN c - 32 ELSE c
toUpperCase(s) == [i \in 1..Len(s) |-> UpperChar(s[i])]

\* TextEncoder.encode: UTF-8 of code points below U+0800.
Utf8Char(c) == IF c < 128 THEN <<c>> ELSE <<192 + (c \div 64), 128 + (c % 64)>>
RECURSIVE encode(_)
encode(s) == IF s = <<>> THEN <<>> ELSE Utf8Char(Head(s)) \o encode(Tail(s))

PAD == 64
RECURSIVE arrayBufferToBase64(_)
arrayBufferToBase64(b) ==
  IF Len(b) = 0 THEN <<>>
  ELSE IF Len(b) = 1 THEN <<b[1] \div 4, (b[1] % 4) * 16, PAD, PAD>>
  ELSE IF Len(b) = 2
    THEN <<b[1] \div 4, (b[1] % 4) * 16 + (b[2] \div 16), (b[2] % 16) * 4, PAD>>
  ELSE <<b[1] \div 4, (b[1] % 4) * 16 + (b[2] \div 16),
         (b[2] % 16) * 4 + (b[3] \div 64), b[3] % 64>>
       \o arrayBufferToBase64(SubSeq(b, 4, Len(b)))

\* A decoder that takes the padding character for a digit.
RECURSIVE base64ToArrayBuffer_IgnoresPadding(_)
base64ToArrayBuffer_IgnoresPadding(t) ==
  IF Len(t) < 4 THEN <<>>
  ELSE <<t[1] * 4 + (t[2] \div 16),
         ((t[2] % 16) * 16 + (t[3] \div 4)) % 256,
         ((t[3] % 4) * 64 + t[4]) % 256>>
       \o base64ToArrayBuffer_IgnoresPadding(SubSeq(t, 5, Len(t)))

RECURSIVE base64ToArrayBuffer(_)
base64ToArrayBuffer(t) ==
  IF Len(t) < 4 THEN <<>>
  ELSE LET b1 == t[1] * 4 + (t[2] \div 16)
           b2 == (t[2] % 16) * 16 + (t[3] \div 4)
           b3 == (t[3] % 4) * 64 + t[4]
       IN  IF t[3] = PAD THEN <<b1>>
           ELSE IF t[4] = PAD THEN <<b1, b2>>
           ELSE <<b1, b2, b3>> \o base64ToArrayBuffer(SubSeq(t, 5, Len(t)))

\* The key block HMAC works with: a key longer than the block is hashed, and
\* the key is then padded with zero bytes to the block size.
HmacKey(k) ==
  IF Len(k) > HMAC_BLOCK THEN <<"SHA-256", k>>
  ELSE [i \in 1..HMAC_BLOCK |-> IF i <= Len(k) THEN k[i] ELSE 0]

\* PBKDF2-HMAC-SHA-256; the derived bits are a function of the key block, the
\* salt and the iteration count, taken to be free of collisions otherwise.
\* Their base64 text is only ever compared, and base64 is injective.
deriveHash(password, salt, iterations) ==
  [prf |-> "HMAC-SHA-256", key |-> HmacKey(encode(password)), salt |-> salt,
   iterations |-> iterations, bits |-> DERIVED_BITS]

UserProfile(id, hash, salt, iterations) ==
  [id |-> id, passwordHash |-> hash, salt |-> arrayBufferToBase64(salt),
   iterations |-> iterations]

AuditEntry(t, r, op, action, details) ==
  [id |-> <<"LOG", t, r>>, operatorId |-> op, action |-> action,
   details |-> details, timestamp |-> t]

\* An analysis without a result yet (result: null).
NoResult == [absent |-> TRUE]
NoRecord == [absent |-> TRUE]

\* The AnalysisState payloads handed to saveInvestigation: in progress; finished
\* with a verdict; finished without one (the analysis failed); in progress again
\* with the verdict of the run before.
Payloads ==
  {[isAnalyzing |-> TRUE, result |-> NoResult],
   [isAnalyzing |-> FALSE, result |-> [verdict |-> "DEEPFAKE"]],
   [isAnalyzing |-> FALSE, result |-> NoResult],
   [isAnalyzing |-> TRUE, result |-> [verdict |-> "DEEPFAKE"]]}

AnalysisState(id, p) ==
  [id |-> id, fileName |-> <<102>> \o id, isAnalyzing |-> p.isAnalyzing,
   result |-> p.result]

\* ------------------------------------------------------------------- state

VARIABLES
  now,              \* Date.now()
  mounted,          \* AuthProvider's mount effect has run
  isAuthenticated,  \* React state of AuthProvider
  operatorId,
  error,
  session,          \* localStorage[SESSION_KEY], parsed
  db,               \* DatabaseService.db is set
  users,            \* object store 'users', by key
  logs,             \* object store 'logs'
  userTxns,         \* readwrite transactions on 'users' not yet finished, in order
  logTxns,          \* readwrite transactions on 'logs' not yet finished, in order
  calls,            \* the login/register invocations and where each stands
  enrolled,         \* history: the passkey each stored record was derived from
  investigations,   \* object store 'investigations', by key
  invTxns,          \* transactions on 'investigations' not yet finished, in order
  ops,              \* the storage-engine invocations and where each stands
  idb,              \* the IndexedDB database: version, schema, opens, handle
  inits,            \* the callers of DatabaseService.init and where each stands
  analyses,         \* React state of App: the in-memory queue, by analysis id
  jobs              \* the handlers of App in flight and where each stands

storeVars == <<db, users, logs, userTxns, logTxns, enrolled>>
sessionVars == <<isAuthenticated, operatorId, session>>
invVars == <<investigations, invTxns, ops>>
appVars == <<idb, inits, analyses, jobs>>
vars == <<now, mounted, isAuthenticated, operatorId, error, session, db, users,
          logs, userTxns, logTxns, calls, enrolled, investigations, invTxns, ops,
          idb, inits, analyses, jobs>>

IdleCall ==
  [kind |-> "none", id |-> <<>>, passkey |-> <<>>, pc |-> "Idle", user |-> NoUser,
   enrolled |-> <<>>, salt |-> <<>>, hash |-> NoHash, wake |-> 0, outcome |-> "pending"]

FinalPcs == {"Granted", "Denied", "Registered", "Failed", "Hung"}

IdleOp ==
  [kind |-> "none", pc |-> "Idle", operatorId |-> NULL, id |-> <<>>, limit |-> 0,
   data |-> NoRecord, count |-> 0, found |-> {}, entries |-> <<>>, logsAhead |-> 0,
   outcome |-> "pending"]

OpFinalPcs == {"Done", "Failed", "Hung"}

ERR_INIT == "DATABASE_INIT_FAILURE"
ERR_NOT_FOUND == "ACCESS_DENIED: Identity not found in secure registry."
ERR_INVALID == "IDENTITY_VERIFICATION_FAILED: Invalid credentials."
ERR_DUPLICATE == "PROVISIONING_ERROR: ID already registered."
ERR_FETCH == "FETCH_FAILURE"

\* The object stores and indexes that onupgradeneeded knows of.
StoreNames == {"users", "investigations", "logs"}
IndexNames == {<<"investigations", "operatorId">>, <<"logs", "operatorId">>,
               <<"logs", "timestamp">>}

\* A database that was never created: version 0, no object store; no open
\* request made, no handle assigned.
NoDatabase ==
  [version |-> 0, stores |-> {}, indexes |-> {}, opens |-> 0, assigned |-> 0,
   handle |-> 0]

IdleInit == [pc |-> "Idle", opened |-> FALSE, used |-> 0]

IdleJob == [kind |-> "none", pc |-> "Idle", id |-> <<>>, op |-> 0, ids |-> {}]

\* Nothing of the detail of init and of App's handlers is in progress.
AppIdle ==
  /\ idb = NoDatabase
  /\ inits = [i \in Callers |-> IdleInit]
  /\ analyses = <<>>
  /\ jobs = [j \in Jobs |-> IdleJob]

\* A user record as an earlier build, with another default work factor, stored it.
LegacyId == <<88>>
LegacyPasskey == <<112>>
LegacySalt == [i \in 1..SALT_BYTES |-> (3 * i + 1) % 256]
LegacyUser ==
  UserProfile(LegacyId, deriveHash(LegacyPasskey, LegacySalt, LegacyIterations),
              LegacySalt, LegacyIterations)

\* What an earlier page life can have left behind: nothing; a registered user; a
\* registered user and the session marker of a login at time 0.
Init ==
  /\ now \in ClockGrid
  /\ mounted = FALSE
  /\ isAuthenticated = FALSE
  /\ operatorId = NULL
  /\ error = NoError
  /\ db = FALSE
  /\ logs = {}
  /\ userTxns = <<>>
  /\ logTxns = <<>>
  /\ calls = [c \in Calls |-> IdleCall]
  /\ investigations = <<>>
  /\ invTxns = <<>>
  /\ ops = [o \in Ops |-> IdleOp]
  /\ AppIdle
  /\ \/ users = <<>> /\ enrolled = <<>> /\ session = NoSession
     \/ /\ users = (LegacyId :> LegacyUser)
        /\ enrolled = (LegacyId :> LegacyPasskey)
        /\ session \in {NoSession, [id |-> LegacyId, expiry |-> 0 + SESSION_WINDOW]}

\* ----------------------------------------------------------- storage engine

\* An init that opens the database again, and can fail, at every call.
init_Reopens(ok) == db' = ok

\* DatabaseService.init as awaited at the head of an operation: a no-op once the
\* handle is set, otherwise indexedDB.open succeeds (ok) or fails.
init(ok) == IF db THEN ok /\ db' = db ELSE db' = ok

\* A lookup that never finds the record.
getUser_Misses(id) == NoUser

getUser(id) == IF id \in DOMAIN users THEN users[id] ELSE NoUser

\* A put that keeps the record already stored under the key (the semantics of add).
put_KeepsExisting(store, rec) ==
  [k \in DOMAIN store \cup {rec.id} |-> IF k \in DOMAIN store THEN store[k] ELSE rec]

\* objectStore.put(record), once its transaction completes.
put(store, rec) ==
  [k \in DOMAIN store \cup {rec.id} |-> IF k = rec.id THEN rec ELSE store[k]]

Range(f) == {f[i] : i \in DOMAIN f}

\* Math.random().toString(36).substr(2, 5) for an entry of millisecond t. The
\* suffix matters only through being equal or not to the suffix of another entry
\* of the same millisecond, so one unused suffix stands for all the unused ones.
SuffixDraws(t) ==
  LET used == {x.id[3] : x \in {y \in logs \cup Range(logTxns) : y.timestamp = t}}
      unused == RandomSuffixes \ used
  IN  used \cup (IF unused = {} THEN {} ELSE {CHOOSE r \in unused : TRUE})

\* DatabaseService.logAction called at time t: awaits init, then issues the add
\* in a transaction of its own and returns without waiting for it.
logAction(ok, t, r, op, action, details) ==
  /\ init(ok)
  /\ logTxns' = IF ok THEN Append(logTxns, AuditEntry(t, r, op, action, details))
                ELSE logTxns

\* An add that overwrites the entry stored under the same key.
LogTxnComplete_Puts ==
  /\ logTxns # <<>>
  /\ \A i \in DOMAIN invTxns : invTxns[i].logs => invTxns[i].logsAhead > 0
  /\ \A o \in Ops : ops[o].pc = "Reading" => ops[o].logsAhead > 0
  /\ LET e == Head(logTxns)
     IN  logs' = {x \in logs : x.id # e.id} \cup {e}
  /\ logTxns' = Tail(logTxns)
  /\ invTxns' = [i \in DOMAIN invTxns |->
                   IF invTxns[i].logs THEN [invTxns[i] EXCEPT !.logsAhead = @ - 1]
                   ELSE invTxns[i]]
  /\ ops' = [o \in Ops |->
               IF ops[o].pc = "Reading" THEN [ops[o] EXCEPT !.logsAhead = @ - 1]
               ELSE ops[o]]
  /\ UNCHANGED <<now, mounted, sessionVars, error, db, users, userTxns, calls,
                 enrolled, investigations>>
  /\ UNCHANGED appVars

\* The add of the oldest 'logs' transaction is carried out: a key that is
\* already stored is a ConstraintError, which aborts the transaction.  The
\* transaction starts once every transaction created before it whose scope
\* holds 'logs' has finished; logsAhead counts, for such a transaction, the
\* 'logs' transactions created before it that are still pending.
LogTxnComplete ==
  /\ logTxns # <<>>
  /\ \A i \in DOMAIN invTxns : invTxns[i].logs => invTxns[i].logsAhead > 0
  /\ \A o \in Ops : ops[o].pc = "Reading" => ops[o].logsAhead > 0
  /\ LET e == Head(logTxns)
     IN  logs' = IF \E x \in logs : x.id = e.id THEN logs ELSE logs \cup {e}
  /\ logTxns' = Tail(logTxns)
  /\ invTxns' = [i \in DOMAIN invTxns |->
                   IF invTxns[i].logs THEN [invTxns[i] EXCEPT !.logsAhead = @ - 1]
                   ELSE invTxns[i]]
  /\ ops' = [o \in Ops |->
               IF ops[o].pc = "Reading" THEN [ops[o] EXCEPT !.logsAhead = @ - 1]
               ELSE ops[o]]
  /\ UNCHANGED <<now, mounted, sessionVars, error, db, users, userTxns, calls,
                 enrolled, investigations>>
  /\ UNCHANGED appVars

\* -------------------------------------------------------- credential service

\* crypto.getRandomValues(new Uint8Array(16)). A salt matters only through being
\* equal or not to another salt, so one unused salt stands for all the unused ones.
SaltDraws ==
  LET used == {calls[d].salt : d \in Calls} \ {<<>>}
      unused == Salts \ used
  IN  used \cup (IF unused = {} THEN {} ELSE {CHOOSE x \in unused : TRUE})

\* `if (operatorId)`: null and the empty string are falsy.
Truthy(s) == s # NULL /\ s # <<>>

SetCall(c, rec) == calls' = [calls EXCEPT ![c] = rec]

\* Slots are taken in order: the invocations are interchangeable.
FreeSlot(c) ==
  /\ calls[c].kind = "none"
  /\ \A d \in Calls : d < c => calls[d].kind # "none"

NoCallInFlight == \A d \in Calls : calls[d].pc \in FinalPcs \cup {"Idle"}

\* A marker that expires the moment it is written.
SessionMarker_NoWindow(id, t) == [id |-> id, expiry |-> t]

\* The session marker written by login and register at time t.
SessionMarker(id, t) == [id |-> id, expiry |-> t + SESSION_WINDOW]

\* A marker that is still restored at the very millisecond of its expiry.
SessionLive_Inclusive(marker, t) == t <= marker.expiry

\* `Date.now() < expiry` of the mount effect.
SessionLive(marker, t) == t < marker.expiry

\* A start-up that restores the flag of a live session without its operator.
Startup_FlagOnly ==
  /\ ~mounted
  /\ mounted' = TRUE
  /\ IF session # NoSession
       THEN IF SessionLive(session, now)
              THEN /\ isAuthenticated' = TRUE
                   /\ UNCHANGED <<operatorId, session>>
              ELSE /\ session' = NoSession
                   /\ UNCHANGED <<isAuthenticated, operatorId>>
       ELSE UNCHANGED sessionVars
  /\ UNCHANGED <<now, error, storeVars, calls>>
  /\ UNCHANGED <<invVars, appVars>>

\* AuthProvider's mount effect: restore the persisted session or evict it.
Startup ==
  /\ ~mounted
  /\ mounted' = TRUE
  /\ IF session # NoSession
       THEN IF SessionLive(session, now)
              THEN /\ isAuthenticated' = TRUE
                   /\ operatorId' = session.id
                   /\ session' = session
              ELSE /\ session' = NoSession
                   /\ UNCHANGED <<isAuthenticated, operatorId>>
       ELSE UNCHANGED sessionVars
  /\ UNCHANGED <<now, error, storeVars, calls>>
  /\ UNCHANGED <<invVars, appVars>>

\* login(id, passkey) up to its first await.
StartLogin(c, id, passkey) ==
  /\ mounted
  /\ FreeSlot(c)
  /\ error' = NoError
  /\ SetCall(c, [IdleCall EXCEPT !.kind = "login", !.id = id, !.passkey = passkey,
                                 !.pc = "Locating"])
  /\ UNCHANGED <<now, mounted, sessionVars, storeVars>>
  /\ UNCHANGED <<invVars, appVars>>

\* dbService.getUser(normalizedId) resolves (or init rejects).
LoginLocate(c) ==
  /\ calls[c].kind = "login" /\ calls[c].pc = "Locating"
  /\ \E ok \in BOOLEAN :
       /\ init(ok)
       /\ IF ~ok
            THEN /\ SetCall(c, [calls[c] EXCEPT !.pc = "Denied", !.outcome = ERR_INIT])
                 /\ error' = ERR_INIT
            ELSE /\ userTxns = <<>>
                 /\ LET normalizedId == toUpperCase(calls[c].id)
                        user == getUser(normalizedId)
                    IN  IF user = NoUser
                          THEN SetCall(c, [calls[c] EXCEPT !.pc = "Waiting",
                                             !.wake = now + UNKNOWN_ID_DELAY])
                          ELSE SetCall(c, [calls[c] EXCEPT !.pc = "Deriving",
                                             !.user = user,
                                             !.enrolled = enrolled[normalizedId]])
                 /\ error' = error
  /\ UNCHANGED <<now, mounted, sessionVars, users, logs, userTxns, logTxns,
                 enrolled>>
  /\ UNCHANGED <<invVars, appVars>>

\* An unknown id that is logged as a failed login before the throw.
LoginDenyUnknown_Logs(c) ==
  /\ calls[c].kind = "login" /\ calls[c].pc = "Waiting"
  /\ now' = Max(now, calls[c].wake)
  /\ SetCall(c, [calls[c] EXCEPT !.pc = "Denied", !.outcome = ERR_NOT_FOUND])
  /\ error' = ERR_NOT_FOUND
  /\ \E ok \in BOOLEAN, r \in SuffixDraws(now') :
       logAction(ok, now', r, toUpperCase(calls[c].id), "LOGIN_FAIL",
                 "Invalid passkey provided.")
  /\ UNCHANGED <<mounted, sessionVars, users, logs, userTxns, enrolled>>
  /\ UNCHANGED <<invVars, appVars>>

\* The artificial latency has passed: throw, caught by login's own handler.
LoginDenyUnknown(c) ==
  /\ calls[c].kind = "login" /\ calls[c].pc = "Waiting"
  /\ now' = Max(now, calls[c].wake)
  /\ SetCall(c, [calls[c] EXCEPT !.pc = "Denied", !.outcome = ERR_NOT_FOUND])
  /\ error' = ERR_NOT_FOUND
  /\ UNCHANGED <<mounted, sessionVars, storeVars>>
  /\ UNCHANGED <<invVars, appVars>>

\* A derivation that reads the passkey of the first invocation, as from a field
\* the invocations share.
LoginDerive_SharedPasskey(c) ==
  /\ calls[c].kind = "login" /\ calls[c].pc = "Deriving"
  /\ LET user == calls[c].user
         saltBuffer == base64ToArrayBuffer(user.salt)
         hashedInput == deriveHash(calls[1].passkey, saltBuffer, user.iterations)
     IN  SetCall(c, [calls[c] EXCEPT !.pc = "Comparing", !.hash = hashedInput,
                                     !.wake = now + VALIDATE_DELAY])
  /\ UNCHANGED <<now, mounted, sessionVars, error, storeVars>>
  /\ UNCHANGED <<invVars, appVars>>

\* A derivation that runs with the current default work factor.
LoginDerive_DefaultIterations(c) ==
  /\ calls[c].kind = "login" /\ calls[c].pc = "Deriving"
  /\ LET user == calls[c].user
         saltBuffer == base64ToArrayBuffer(user.salt)
         hashedInput == deriveHash(calls[c].passkey, saltBuffer, PBKDF2_ITERATIONS)
     IN  SetCall(c, [calls[c] EXCEPT !.pc = "Comparing", !.hash = hashedInput,
                                     !.wake = now + VALIDATE_DELAY])
  /\ UNCHANGED <<now, mounted, sessionVars, error, storeVars>>
  /\ UNCHANGED <<invVars, appVars>>

\* deriveHash(passkey, saltBuffer, user.iterations) resolves; the timer is set.
LoginDerive(c) ==
  /\ calls[c].kind = "login" /\ calls[c].pc = "Deriving"
  /\ LET user == calls[c].user
         saltBuffer == base64ToArrayBuffer(user.salt)
         hashedInput == deriveHash(calls[c].passkey, saltBuffer, user.iterations)
     IN  SetCall(c, [calls[c] EXCEPT !.pc = "Comparing", !.hash = hashedInput,
                                     !.wake = now + VALIDATE_DELAY])
  /\ UNCHANGED <<now, mounted, sessionVars, error, storeVars>>
  /\ UNCHANGED <<invVars, appVars>>

\* A comparison that establishes the session whatever its result.
LoginCompare_SessionFirst(c) ==
  /\ calls[c].kind = "login" /\ calls[c].pc = "Comparing"
  /\ now' = Max(now, calls[c].wake)
  /\ LET normalizedId == toUpperCase(calls[c].id)
     IN  \E ok \in BOOLEAN, r \in SuffixDraws(now') :
           IF calls[c].user.passwordHash = calls[c].hash
             THEN /\ isAuthenticated' = TRUE
                  /\ operatorId' = normalizedId
                  /\ session' = SessionMarker(normalizedId, now')
                  /\ logAction(ok, now', r, normalizedId, "LOGIN",
                               "Standard biometric handshake complete.")
                  /\ IF ok
                       THEN /\ SetCall(c, [calls[c] EXCEPT !.pc = "Granted",
                                                           !.outcome = "ok"])
                            /\ error' = error
                       ELSE /\ SetCall(c, [calls[c] EXCEPT !.pc = "Denied",
                                                           !.outcome = ERR_INIT])
                            /\ error' = ERR_INIT
             ELSE /\ logAction(ok, now', r, normalizedId, "LOGIN_FAIL",
                               "Invalid passkey provided.")
                  /\ LET e == IF ok THEN ERR_INVALID ELSE ERR_INIT
                     IN  /\ SetCall(c, [calls[c] EXCEPT !.pc = "Denied", !.outcome = e])
                         /\ error' = e
                  /\ isAuthenticated' = TRUE
                  /\ operatorId' = normalizedId
                  /\ session' = SessionMarker(normalizedId, now')
  /\ UNCHANGED <<mounted, users, logs, userTxns, enrolled>>
  /\ UNCHANGED <<invVars, appVars>>

\* The timer fires: compare, then establish the session and log, or log and
\* throw.  logAction's await of init and login's await of logAction resume in
\* microtasks, so nothing runs in between.
LoginCompare(c) ==
  /\ calls[c].kind = "login" /\ calls[c].pc = "Comparing"
  /\ now' = Max(now, calls[c].wake)
  /\ LET normalizedId == toUpperCase(calls[c].id)
     IN  \E ok \in BOOLEAN, r \in SuffixDraws(now') :
           IF calls[c].user.passwordHash = calls[c].hash
             THEN /\ isAuthenticated' = TRUE
                  /\ operatorId' = normalizedId
                  /\ session' = SessionMarker(normalizedId, now')
                  /\ logAction(ok, now', r, normalizedId, "LOGIN",
                               "Standard biometric handshake complete.")
                  /\ IF ok
                       THEN /\ SetCall(c, [calls[c] EXCEPT !.pc = "Granted",
                                                           !.outcome = "ok"])
                            /\ error' = error
                       ELSE /\ SetCall(c, [calls[c] EXCEPT !.pc = "Denied",
                                                           !.outcome = ERR_INIT])
                            /\ error' = ERR_INIT
             ELSE /\ logAction(ok, now', r, normalizedId, "LOGIN_FAIL",
                               "Invalid passkey provided.")
                  /\ LET e == IF ok THEN ERR_INVALID ELSE ERR_INIT
                     IN  /\ SetCall(c, [calls[c] EXCEPT !.pc = "Denied", !.outcome = e])
                         /\ error' = e
                  /\ UNCHANGED sessionVars
  /\ UNCHANGED <<mounted, users, logs, userTxns, enrolled>>
  /\ UNCHANGED <<invVars, appVars>>

\* register(id, passkey) up to its first await.
StartRegister(c, id, passkey) ==
  /\ mounted
  /\ FreeSlot(c)
  /\ error' = NoError
  /\ SetCall(c, [IdleCall EXCEPT !.kind = "register", !.id = id,
                                 !.passkey = passkey, !.pc = "Checking"])
  /\ UNCHANGED <<now, mounted, sessionVars, storeVars>>
  /\ UNCHANGED <<invVars, appVars>>

\* A collision check that comes after the put has been issued.
RegisterCheck_AfterPut(c) ==
  /\ calls[c].kind = "register" /\ calls[c].pc = "Checking"
  /\ init(TRUE)
  /\ userTxns = <<>>
  /\ LET normalizedId == toUpperCase(calls[c].id)
         profile == UserProfile(normalizedId, NoHash, <<>>, PBKDF2_ITERATIONS)
     IN  /\ userTxns' = Append(userTxns, [call |-> c, profile |-> profile])
         /\ IF getUser(normalizedId) # NoUser
              THEN /\ SetCall(c, [calls[c] EXCEPT !.pc = "Failed",
                                                  !.outcome = ERR_DUPLICATE])
                   /\ error' = ERR_DUPLICATE
              ELSE /\ SetCall(c, [calls[c] EXCEPT !.pc = "Saving"])
                   /\ error' = error
  /\ UNCHANGED <<now, mounted, sessionVars, users, logs, logTxns, enrolled>>
  /\ UNCHANGED <<invVars, appVars>>

\* The collision check: getUser resolves; a salt is drawn if the id is free.
RegisterCheck(c) ==
  /\ calls[c].kind = "register" /\ calls[c].pc = "Checking"
  /\ \E ok \in BOOLEAN :
       /\ init(ok)
       /\ IF ~ok
            THEN /\ SetCall(c, [calls[c] EXCEPT !.pc = "Failed", !.outcome = ERR_INIT])
                 /\ error' = ERR_INIT
            ELSE /\ userTxns = <<>>
                 /\ IF getUser(toUpperCase(calls[c].id)) # NoUser
                      THEN /\ SetCall(c, [calls[c] EXCEPT !.pc = "Failed",
                                                          !.outcome = ERR_DUPLICATE])
                           /\ error' = ERR_DUPLICATE
                      ELSE /\ \E salt \in SaltDraws :
                                SetCall(c, [calls[c] EXCEPT !.pc = "Hashing",
                                                           !.salt = salt])
                           /\ error' = error
  /\ UNCHANGED <<now, mounted, sessionVars, users, logs, userTxns, logTxns,
                 enrolled>>
  /\ UNCHANGED <<invVars, appVars>>

\* deriveHash resolves; saveUser issues the put in a transaction of its own.
RegisterHash(c) ==
  /\ calls[c].kind = "register" /\ calls[c].pc = "Hashing"
  /\ LET normalizedId == toUpperCase(calls[c].id)
         hash == deriveHash(calls[c].passkey, calls[c].salt, PBKDF2_ITERATIONS)
         profile == UserProfile(normalizedId, hash, calls[c].salt, PBKDF2_ITERATIONS)
     IN  /\ SetCall(c, [calls[c] EXCEPT !.pc = "Saving", !.hash = hash])
         /\ userTxns' = Append(userTxns, [call |-> c, profile |-> profile])
  /\ UNCHANGED <<now, mounted, sessionVars, error, db, users, logs, logTxns,
                 enrolled>>
  /\ UNCHANGED <<invVars, appVars>>

\* saveUser's transaction completes; register logs and establishes the session.
RegisterCommit(c) ==
  /\ calls[c].kind = "register" /\ calls[c].pc = "Saving"
  /\ userTxns # <<>> /\ Head(userTxns).call = c
  /\ LET profile == Head(userTxns).profile
         normalizedId == toUpperCase(calls[c].id)
     IN  /\ users' = put(users, profile)
         /\ enrolled' = [k \in DOMAIN enrolled \cup {profile.id} |->
                          IF k = profile.id THEN calls[c].passkey ELSE enrolled[k]]
         /\ userTxns' = Tail(userTxns)
         /\ \E ok \in BOOLEAN, r \in SuffixDraws(now) :
              /\ logAction(ok, now, r, normalizedId, "REGISTRATION",
                           "New operator profile provisioned.")
              /\ IF ok
                   THEN /\ isAuthenticated' = TRUE
                        /\ operatorId' = normalizedId
                        /\ session' = SessionMarker(normalizedId, now)
                        /\ SetCall(c, [calls[c] EXCEPT !.pc = "Registered",
                                                       !.outcome = "ok"])
                        /\ error' = error
                   ELSE /\ SetCall(c, [calls[c] EXCEPT !.pc = "Failed",
                                                       !.outcome = ERR_INIT])
                        /\ error' = ERR_INIT
                        /\ UNCHANGED sessionVars
  /\ UNCHANGED <<now, mounted, logs>>
  /\ UNCHANGED <<invVars, appVars>>

\* saveUser's transaction aborts: saveUser listens to oncomplete only, so its
\* promise, and register with it, stays pending.
RegisterAbort(c) ==
  /\ calls[c].kind = "register" /\ calls[c].pc = "Saving"
  /\ userTxns # <<>> /\ Head(userTxns).call = c
  /\ userTxns' = Tail(userTxns)
  /\ SetCall(c, [calls[c] EXCEPT !.pc = "Hung"])
  /\ UNCHANGED <<now, mounted, sessionVars, error, db, users, logs, logTxns,
                 enrolled>>
  /\ UNCHANGED <<invVars, appVars>>

\* A logout that leaves the persisted marker behind.
Logout_KeepsMarker ==
  /\ mounted
  /\ IF Truthy(operatorId)
       THEN \E ok \in BOOLEAN, r \in SuffixDraws(now) :
              logAction(ok, now, r, operatorId, "LOGOUT", "Operator terminated session.")
       ELSE UNCHANGED <<db, logTxns>>
  /\ isAuthenticated' = FALSE
  /\ operatorId' = NULL
  /\ session' = session
  /\ UNCHANGED <<now, mounted, error, users, logs, userTxns, calls, enrolled>>
  /\ UNCHANGED <<invVars, appVars>>

\* logout(): the audit append is started and not awaited.
Logout ==
  /\ mounted
  /\ IF Truthy(operatorId)
       THEN \E ok \in BOOLEAN, r \in SuffixDraws(now) :
              logAction(ok, now, r, operatorId, "LOGOUT", "Operator terminated session.")
       ELSE UNCHANGED <<db, logTxns>>
  /\ isAuthenticated' = FALSE
  /\ operatorId' = NULL
  /\ session' = NoSession
  /\ UNCHANGED <<now, mounted, error, users, logs, userTxns, calls, enrolled>>
  /\ UNCHANGED <<invVars, appVars>>

\* Time passes.
Tick ==
  /\ \E t \in ClockGrid : t > now /\ now' = t
  /\ UNCHANGED <<mounted, sessionVars, error, storeVars, calls>>
  /\ UNCHANGED <<invVars, appVars>>

\* -------------------------------------------- storage engine: investigations

SetOp(o, rec) == ops' = [ops EXCEPT ![o] = rec]

\* Slots are taken in order: the invocations are interchangeable.
FreeOp(o) ==
  /\ ops[o].kind = "none"
  /\ \A d \in Ops : d < o => ops[d].kind # "none"

NoOpInFlight == \A d \in Ops : ops[d].pc \in OpFinalPcs \cup {"Idle"}

\* { ...analysis, operatorId, timestamp: Date.now() }
Stamped(analysis, op, t) ==
  [id |-> analysis.id, fileName |-> analysis.fileName,
   isAnalyzing |-> analysis.isAnalyzing, result |-> analysis.result,
   operatorId |-> op, timestamp |-> t]

\* A completion test that takes every analysis with a result for a completed one.
Completed_IgnoresProgress(analysis) == analysis.result # NoResult

\* `!analysis.isAnalyzing && analysis.result`
Completed(analysis) == ~analysis.isAnalyzing /\ analysis.result # NoResult

CompletionDetails(analysis) ==
  <<"Target: ", analysis.fileName, " - Verdict: ", analysis.result.verdict>>

\* A purge entry that counts one record too many.
PurgeDetails_OneMore(found) == <<"Deleted ", Cardinality(found) + 1, " records.">>

\* `Deleted ${investigations.length} records.`
PurgeDetails(found) == <<"Deleted ", Cardinality(found), " records.">>

\* A delete that empties the object store.
delete_Clears(store, ids) == [k \in {} |-> NoRecord]

\* store.delete(id) for each id of ids: an absent key is not an error.
delete(store, ids) == [k \in DOMAIN store \ ids |-> store[k]]

\* An index lookup that returns the records of every operator.
getAll_EveryOperator(store, op) == {store[k] : k \in DOMAIN store}

\* index('operatorId').getAll(operatorId) on 'investigations'.
getAll(store, op) == {store[k] : k \in {j \in DOMAIN store : store[j].operatorId = op}}

\* A transaction on 'investigations' and its one kind of request.
Txn(o, mode, withLogs, request, data, ids, key) ==
  [op |-> o, mode |-> mode, logs |-> withLogs,
   logsAhead |-> IF withLogs THEN Len(logTxns) ELSE 0,
   request |-> request, data |-> data, ids |-> ids, key |-> key]

HasTxn(o) == \E i \in DOMAIN invTxns : invTxns[i].op = o
TxnIndex(o) == CHOOSE i \in DOMAIN invTxns : invTxns[i].op = o
TxnOf(o) == invTxns[TxnIndex(o)]
Remove(q, i) == SubSeq(q, 1, i - 1) \o SubSeq(q, i + 1, Len(q))

\* IndexedDB starts a transaction once every transaction created before it with
\* an overlapping scope has finished, unless both are read-only.
Runnable(i) ==
  /\ invTxns[i].logs => invTxns[i].logsAhead = 0
  /\ \A j \in 1..(i - 1) :
       invTxns[j].mode = "readonly" /\ invTxns[i].mode = "readonly"

OpAt(o, kind, pc) == ops[o].kind = kind /\ ops[o].pc = pc /\ HasTxn(o) /\ Runnable(TxnIndex(o))

\* saveInvestigation(analysis, operatorId) up to the promise it returns: init,
\* the put in a transaction over 'investigations' and 'logs', and the audit
\* append, started and not awaited, when the analysis is a completed one.
saveInvestigation(o, id, p, op) ==
  /\ FreeOp(o)
  /\ LET analysis == AnalysisState(id, p)
         data == Stamped(analysis, op, now)
         call == [IdleOp EXCEPT !.kind = "save", !.operatorId = op, !.id = id,
                                !.data = data]
     IN  \E ok \in BOOLEAN :
           IF ~ok
             THEN /\ init(ok)
                  /\ SetOp(o, [call EXCEPT !.pc = "Failed", !.outcome = ERR_INIT])
                  /\ UNCHANGED <<invTxns, logTxns>>
             ELSE /\ invTxns' = Append(invTxns, Txn(o, "readwrite", TRUE, "put", data,
                                                    {}, NULL))
                  /\ IF Completed(analysis)
                       THEN \E r \in SuffixDraws(now) :
                              logAction(ok, now, r, op, "ANALYSIS_COMPLETE",
                                        CompletionDetails(analysis))
                       ELSE init(ok) /\ logTxns' = logTxns
                  /\ SetOp(o, [call EXCEPT !.pc = "Saving"])
  /\ UNCHANGED <<now, mounted, sessionVars, error, users, logs, userTxns, calls,
                 enrolled, investigations>>
  /\ UNCHANGED <<idb, inits>>

\* saveInvestigation called from outside App's handlers.
StartSave(o, id, p, op) ==
  saveInvestigation(o, id, p, op) /\ UNCHANGED <<analyses, jobs>>

\* The transaction of saveInvestigation completes: the record is stored and the
\* promise resolves.
SaveComplete(o) ==
  /\ OpAt(o, "save", "Saving")
  /\ investigations' = put(investigations, TxnOf(o).data)
  /\ invTxns' = Remove(invTxns, TxnIndex(o))
  /\ SetOp(o, [ops[o] EXCEPT !.pc = "Done", !.outcome = "ok"])
  /\ UNCHANGED <<now, mounted, sessionVars, error, db, users, logs, userTxns,
                 logTxns, calls, enrolled>>
  /\ UNCHANGED appVars

\* deleteInvestigation(id) up to the promise it returns.
deleteInvestigation(o, id) ==
  /\ FreeOp(o)
  /\ LET call == [IdleOp EXCEPT !.kind = "delete", !.id = id]
     IN  \E ok \in BOOLEAN :
           /\ init(ok)
           /\ IF ~ok
                THEN /\ SetOp(o, [call EXCEPT !.pc = "Failed", !.outcome = ERR_INIT])
                     /\ invTxns' = invTxns
                ELSE /\ invTxns' = Append(invTxns, Txn(o, "readwrite", FALSE, "delete",
                                                       NoRecord, {id}, NULL))
                     /\ SetOp(o, [call EXCEPT !.pc = "Deleting"])
  /\ UNCHANGED <<now, mounted, sessionVars, error, users, logs, userTxns, logTxns,
                 calls, enrolled, investigations>>
  /\ UNCHANGED <<idb, inits>>

\* deleteInvestigation called from outside App's handlers.
StartDelete(o, id) ==
  deleteInvestigation(o, id) /\ UNCHANGED <<analyses, jobs>>

\* The transaction of deleteInvestigation completes.
DeleteCommitted(o) ==
  /\ OpAt(o, "delete", "Deleting")
  /\ investigations' = delete(investigations, TxnOf(o).ids)
  /\ invTxns' = Remove(invTxns, TxnIndex(o))
  /\ SetOp(o, [ops[o] EXCEPT !.pc = "Done", !.outcome = "ok"])
  /\ UNCHANGED <<now, mounted, sessionVars, error, db, users, logs, userTxns,
                 logTxns, calls, enrolled>>
  /\ UNCHANGED <<idb, inits>>

\* The completion, seen from outside App's handlers.
DeleteComplete(o) ==
  DeleteCommitted(o) /\ UNCHANGED <<analyses, jobs>>

\* getInvestigations(operatorId), alone or as the first step of
\* clearOperatorInvestigations, up to the promise it returns.
getInvestigations(o, kind, op) ==
  /\ FreeOp(o)
  /\ LET call == [IdleOp EXCEPT !.kind = kind, !.operatorId = op]
     IN  \E ok \in BOOLEAN :
           /\ init(ok)
           /\ IF ~ok
                THEN /\ SetOp(o, [call EXCEPT !.pc = "Failed", !.outcome = ERR_INIT])
                     /\ invTxns' = invTxns
                ELSE /\ invTxns' = Append(invTxns, Txn(o, "readonly", FALSE, "getAll",
                                                       NoRecord, {}, op))
                     /\ SetOp(o, [call EXCEPT !.pc = "Fetching"])
  /\ UNCHANGED <<now, mounted, sessionVars, error, users, logs, userTxns, logTxns,
                 calls, enrolled, investigations>>
  /\ UNCHANGED <<idb, inits>>

\* getInvestigations called from outside App's handlers.
StartRead(o, kind, op) ==
  getInvestigations(o, kind, op) /\ UNCHANGED <<analyses, jobs>>

StartGet(o, op) == StartRead(o, "get", op)
StartPurge(o, op) == StartRead(o, "purge", op)

\* request.onsuccess of getInvestigations: the promise resolves with the records.
GetResolve(o) ==
  /\ OpAt(o, "get", "Fetching")
  /\ invTxns' = Remove(invTxns, TxnIndex(o))
  /\ SetOp(o, [ops[o] EXCEPT !.pc = "Done", !.outcome = "ok",
                             !.found = getAll(investigations, TxnOf(o).key)])
  /\ UNCHANGED <<now, mounted, sessionVars, error, db, users, logs, userTxns,
                 logTxns, calls, enrolled, investigations>>
  /\ UNCHANGED appVars

\* request.onerror of getInvestigations: FETCH_FAILURE, which a purge passes on.
ReadFail(o) ==
  /\ OpAt(o, "get", "Fetching") \/ OpAt(o, "purge", "Fetching")
  /\ invTxns' = Remove(invTxns, TxnIndex(o))
  /\ SetOp(o, [ops[o] EXCEPT !.pc = "Failed", !.outcome = ERR_FETCH])
  /\ UNCHANGED <<now, mounted, sessionVars, error, db, users, logs, userTxns,
                 logTxns, calls, enrolled, investigations>>
  /\ UNCHANGED appVars

\* clearOperatorInvestigations after its read: one transaction over
\* 'investigations' and 'logs' with a delete per record read, and the audit
\* append with the number of records read, started and not awaited.
PurgeSnapshot(o) ==
  /\ OpAt(o, "purge", "Fetching")
  /\ LET found == getAll(investigations, TxnOf(o).key)
         rest == Remove(invTxns, TxnIndex(o))
     IN  /\ invTxns' = Append(rest, Txn(o, "readwrite", TRUE, "delete", NoRecord,
                                        {inv.id : inv \in found}, NULL))
         /\ \E r \in SuffixDraws(now) :
              logAction(TRUE, now, r, ops[o].operatorId, "BATCH_PURGE",
                        PurgeDetails(found))
         /\ SetOp(o, [ops[o] EXCEPT !.pc = "Purging", !.found = found,
                                    !.count = Cardinality(found)])
  /\ UNCHANGED <<now, mounted, sessionVars, error, users, logs, userTxns, calls,
                 enrolled, investigations>>
  /\ UNCHANGED appVars

\* The transaction of clearOperatorInvestigations completes.
PurgeCommitted(o) ==
  /\ OpAt(o, "purge", "Purging")
  /\ investigations' = delete(investigations, TxnOf(o).ids)
  /\ invTxns' = Remove(invTxns, TxnIndex(o))
  /\ SetOp(o, [ops[o] EXCEPT !.pc = "Done", !.outcome = "ok"])
  /\ UNCHANGED <<now, mounted, sessionVars, error, db, users, logs, userTxns,
                 logTxns, calls, enrolled>>
  /\ UNCHANGED <<idb, inits>>

\* The completion, seen from outside App's handlers.
PurgeComplete(o) ==
  PurgeCommitted(o) /\ UNCHANGED <<analyses, jobs>>

\* A read-write transaction on 'investigations' aborts: the operations listen to
\* oncomplete only, so the promise stays pending.
InvTxnAbort(o) ==
  /\ \/ OpAt(o, "save", "Saving")
     \/ OpAt(o, "delete", "Deleting")
     \/ OpAt(o, "purge", "Purging")
  /\ invTxns' = Remove(invTxns, TxnIndex(o))
  /\ SetOp(o, [ops[o] EXCEPT !.pc = "Hung"])
  /\ UNCHANGED <<now, mounted, sessionVars, error, db, users, logs, userTxns,
                 logTxns, calls, enrolled, investigations>>
  /\ UNCHANGED appVars

\* ------------------------------------------------- storage engine: audit log

\* Order of the keys `LOG-${timestamp}-${suffix}` of two entries of one
\* millisecond: the order of their suffixes as strings ('0' sorts before 'k').
SuffixRank(r) == IF r = "0zq1x" THEN 1 ELSE 2

\* A comparison that sorts the oldest entry first.
Precedes_Ascending(a, b) ==
  \/ a.timestamp < b.timestamp
  \/ a.timestamp = b.timestamp /\ SuffixRank(a.id[3]) < SuffixRank(b.id[3])

\* index.getAll returns the entries in key order and Array.prototype.sort is
\* stable, so `sort((a, b) => b.timestamp - a.timestamp)` puts a before b when a
\* is the later one, or they are of the same millisecond and a's key is first.
Precedes(a, b) ==
  \/ a.timestamp > b.timestamp
  \/ a.timestamp = b.timestamp /\ SuffixRank(a.id[3]) < SuffixRank(b.id[3])

RECURSIVE sort(_)
sort(S) ==
  IF S = {} THEN <<>>
  ELSE LET first == CHOOSE x \in S : \A y \in S \ {x} : Precedes(x, y)
       IN  <<first>> \o sort(S \ {first})

\* Array.prototype.slice(0, limit) for a limit that is not negative.
slice(s, limit) == SubSeq(s, 1, IF limit < Len(s) THEN limit ELSE Len(s))

getRecentLogs(op, limit) ==
  slice(sort({x \in logs : x.operatorId = op}), limit)

\* getRecentLogs(operatorId, limit) up to the promise it returns: its read-only
\* transaction waits for the 'logs' transactions created before it.
StartLogsRead(o, op, limit) ==
  /\ FreeOp(o)
  /\ LET call == [IdleOp EXCEPT !.kind = "logs", !.operatorId = op, !.limit = limit]
     IN  \E ok \in BOOLEAN :
           /\ init(ok)
           /\ IF ~ok
                THEN SetOp(o, [call EXCEPT !.pc = "Failed", !.outcome = ERR_INIT])
                ELSE SetOp(o, [call EXCEPT !.pc = "Reading",
                                           !.logsAhead = Len(logTxns)])
  /\ UNCHANGED <<now, mounted, sessionVars, error, users, logs, userTxns, logTxns,
                 calls, enrolled, investigations, invTxns>>
  /\ UNCHANGED appVars

\* request.onsuccess of getRecentLogs: sort, slice, resolve.
LogsResolve(o) ==
  /\ ops[o].kind = "logs" /\ ops[o].pc = "Reading" /\ ops[o].logsAhead = 0
  /\ SetOp(o, [ops[o] EXCEPT !.pc = "Done", !.outcome = "ok",
                             !.entries = getRecentLogs(ops[o].operatorId,
                                                       ops[o].limit)])
  /\ UNCHANGED <<now, mounted, sessionVars, error, db, users, logs, userTxns,
                 logTxns, calls, enrolled, investigations, invTxns>>
  /\ UNCHANGED appVars

\* An analysis that an earlier page life saved, finished without a verdict.
SavedAnalysis(id, op) ==
  Stamped(AnalysisState(id, [isAnalyzing |-> FALSE, result |-> NoResult]), op, 0)

\* Audit entries of an earlier day: two of "X" of one millisecond, one of "S1".
SavedLogs ==
  {AuditEntry(0, "k3f9a", <<88>>, "ANALYSIS_START", <<"Target: ", <<102, 65>>>>),
   AuditEntry(0, "0zq1x", <<88>>, "ANALYSIS_START", <<"Target: ", <<102, 66>>>>),
   AuditEntry(VALIDATE_DELAY, "k3f9a", <<83, 49>>, "LOGIN",
              "Standard biometric handshake complete.")}

\* ------------------------------------------- storage engine: init in detail

\* request.onupgradeneeded: every object store that is missing is created, with
\* its indexes; an object store that exists is left as it is.
onupgradeneeded(d) ==
  [d EXCEPT !.version = DB_VERSION,
            !.stores = d.stores \cup StoreNames,
            !.indexes = d.indexes \cup {ix \in IndexNames : ix[1] \notin d.stores}]

SetInit(i, rec) == inits' = [inits EXCEPT ![i] = rec]

\* An init that opens the database whether or not the handle is set.
InitCall_AlwaysOpens(i) ==
  /\ inits[i].pc = "Idle"
  /\ \A d \in Callers : d < i => inits[d].pc # "Idle"
  /\ idb' = [idb EXCEPT !.opens = @ + 1]
  /\ SetInit(i, [inits[i] EXCEPT !.pc = "Opening", !.opened = TRUE])
  /\ UNCHANGED <<now, mounted, sessionVars, error, storeVars, calls, invVars,
                 analyses, jobs>>

\* A storage operation begins with `await this.init()`: init returns at once
\* when the handle is set, and calls indexedDB.open otherwise.
InitCall(i) ==
  /\ inits[i].pc = "Idle"
  /\ \A d \in Callers : d < i => inits[d].pc # "Idle"
  /\ IF db
       THEN /\ SetInit(i, [inits[i] EXCEPT !.pc = "Ready"])
            /\ idb' = idb
       ELSE /\ SetInit(i, [inits[i] EXCEPT !.pc = "Opening", !.opened = TRUE])
            /\ idb' = [idb EXCEPT !.opens = @ + 1]
  /\ UNCHANGED <<now, mounted, sessionVars, error, storeVars, calls, invVars,
                 analyses, jobs>>

\* The open request of caller i succeeds: onupgradeneeded first when the stored
\* version is older, then onsuccess, which assigns the handle and resolves.
OpenSuccess(i) ==
  /\ inits[i].pc = "Opening"
  /\ LET d == IF idb.version < DB_VERSION THEN onupgradeneeded(idb) ELSE idb
     IN  idb' = [d EXCEPT !.assigned = @ + 1, !.handle = i]
  /\ db' = TRUE
  /\ SetInit(i, [inits[i] EXCEPT !.pc = "Ready"])
  /\ UNCHANGED <<now, mounted, sessionVars, error, users, logs, userTxns, logTxns,
                 enrolled, calls, invVars, analyses, jobs>>

\* The open request of caller i fails: init rejects, and the operation with it.
OpenError(i) ==
  /\ inits[i].pc = "Opening"
  /\ SetInit(i, [inits[i] EXCEPT !.pc = "Failed"])
  /\ UNCHANGED <<now, mounted, sessionVars, error, storeVars, calls, invVars,
                 idb, analyses, jobs>>

\* The operation goes on to `this.db!.transaction(...)` on the handle of the moment.
Touch(i) ==
  /\ inits[i].pc = "Ready"
  /\ SetInit(i, [inits[i] EXCEPT !.pc = "Touched", !.used = idb.handle])
  /\ UNCHANGED <<now, mounted, sessionVars, error, storeVars, calls, invVars,
                 idb, analyses, jobs>>

\* The schemas an earlier version of the application can have left: any of the
\* object stores, each with any of its indexes.
OlderSchemas ==
  {[stores |-> st, indexes |-> ix] :
     st \in SUBSET StoreNames,
     ix \in SUBSET IndexNames}

\* The database before the first init of a page life: never created; created
\* by an earlier version with an older schema, with the records it holds; or
\* created by this version.
InitInit ==
  /\ now = 0
  /\ mounted = FALSE
  /\ isAuthenticated = FALSE
  /\ operatorId = NULL
  /\ error = NoError
  /\ session = NoSession
  /\ db = FALSE
  /\ userTxns = <<>>
  /\ logTxns = <<>>
  /\ calls = [c \in Calls |-> IdleCall]
  /\ invTxns = <<>>
  /\ ops = [o \in Ops |-> IdleOp]
  /\ inits = [i \in Callers |-> IdleInit]
  /\ analyses = <<>>
  /\ jobs = [j \in Jobs |-> IdleJob]
  /\ \/ idb = NoDatabase
     \/ \E sc \in OlderSchemas :
          /\ \A ix \in sc.indexes : ix[1] \in sc.stores
          /\ idb = [NoDatabase EXCEPT !.version = 1, !.stores = sc.stores,
                                      !.indexes = sc.indexes]
     \/ idb = onupgradeneeded(NoDatabase)
  /\ users = IF "users" \in idb.stores THEN (LegacyId :> LegacyUser) ELSE <<>>
  /\ enrolled = IF "users" \in idb.stores THEN (LegacyId :> LegacyPasskey) ELSE <<>>
  /\ investigations = IF "investigations" \in idb.stores
                        THEN (<<65>> :> SavedAnalysis(<<65>>, <<88>>)) ELSE <<>>
  /\ logs = IF "logs" \in idb.stores THEN SavedLogs ELSE {}

InitNext ==
  \/ \E i \in Callers : InitCall(i)
  \/ \E i \in Callers : OpenSuccess(i)
  \/ \E i \in Callers : OpenError(i)
  \/ \E i \in Callers : Touch(i)

InitSpec == InitInit /\ [][InitNext]_vars

\* ----------------------------------------------------------- specifications

CallStep(c) ==
  \/ LoginLocate(c)
  \/ LoginDenyUnknown(c)
  \/ LoginDerive(c)
  \/ LoginCompare(c)
  \/ RegisterCheck(c)
  \/ RegisterHash(c)
  \/ RegisterCommit(c)
  \/ RegisterAbort(c)

Environment ==
  \/ Startup
  \/ Logout
  \/ Tick
  \/ LogTxnComplete

\* Invocations interleave freely.
Next ==
  \/ Environment
  \/ \E c \in Calls : CallStep(c)
  \/ \E c \in Calls, id \in RawIds, passkey \in Passkeys : StartLogin(c, id, passkey)
  \/ \E c \in Calls, id \in RawIds, passkey \in Passkeys : StartRegister(c, id, passkey)

Spec == Init /\ [][Next]_vars

\* What an earlier day can have left in the store: the registered operator "X",
\* up to one saved analysis for each of the two operators, and audit entries.
StoreInit ==
  /\ now = SESSION_WINDOW
  /\ mounted = FALSE
  /\ isAuthenticated = FALSE
  /\ operatorId = NULL
  /\ error = NoError
  /\ session = NoSession
  /\ db = FALSE
  /\ users = (LegacyId :> LegacyUser)
  /\ enrolled = (LegacyId :> LegacyPasskey)
  /\ logs \in {{}, SavedLogs}
  /\ userTxns = <<>>
  /\ logTxns = <<>>
  /\ calls = [c \in Calls |-> IdleCall]
  /\ \/ investigations = <<>>
     \/ investigations = (<<65>> :> SavedAnalysis(<<65>>, <<88>>))
     \/ investigations = (<<65>> :> SavedAnalysis(<<65>>, <<88>>)
                          @@ <<66>> :> SavedAnalysis(<<66>>, <<83, 49>>))
  /\ invTxns = <<>>
  /\ ops = [o \in Ops |-> IdleOp]
  /\ AppIdle

OpStep(o) ==
  \/ SaveComplete(o)
  \/ DeleteComplete(o)
  \/ GetResolve(o)
  \/ ReadFail(o)
  \/ PurgeSnapshot(o)
  \/ PurgeComplete(o)
  \/ InvTxnAbort(o)
  \/ LogsResolve(o)

\* The storage engine: its operations interleave freely.
StoreNext ==
  \/ LogTxnComplete
  \/ \E o \in Ops : OpStep(o)
  \/ \E o \in Ops, id \in InvIds, p \in Payloads, op \in Operators :
       StartSave(o, id, p, op)
  \/ \E o \in Ops, id \in InvIds : StartDelete(o, id)
  \/ \E o \in Ops, op \in Operators : StartGet(o, op)
  \/ \E o \in Ops, op \in Operators : StartPurge(o, op)
  \/ \E o \in Ops, op \in Operators, limit \in Limits : StartLogsRead(o, op, limit)

StoreSpec == StoreInit /\ [][StoreNext]_vars

\* The storage engine with one operation at a time.
StoreSeqNext ==
  \/ LogTxnComplete
  \/ \E o \in Ops : OpStep(o)
  \/ \E o \in Ops, id \in InvIds, p \in Payloads, op \in Operators :
       NoOpInFlight /\ StartSave(o, id, p, op)
  \/ \E o \in Ops, id \in InvIds : NoOpInFlight /\ StartDelete(o, id)
  \/ \E o \in Ops, op \in Operators : NoOpInFlight /\ StartGet(o, op)
  \/ \E o \in Ops, op \in Operators : NoOpInFlight /\ StartPurge(o, op)
  \/ \E o \in Ops, op \in Operators, limit \in Limits :
       NoOpInFlight /\ StartLogsRead(o, op, limit)

StoreSeqSpec == StoreInit /\ [][StoreSeqNext]_vars

\* The dashboard is rendered for the operator of the session, and issues its
\* storage operations for that operator.
Dashboard == isAuthenticated /\ Truthy(operatorId) /\ NoOpInFlight

\* The application as App wires it: the credential service with one invocation
\* at a time and the passkey "X" registered with, and the dashboard's storage
\* operations, one at a time, for the analysis "A" of the operator logged in.
AppNext ==
  \/ Startup
  \/ Logout
  \/ LogTxnComplete
  \/ \E c \in Calls : CallStep(c)
  \/ \E c \in Calls, id \in {<<120>>, <<115, 49>>} :
       NoCallInFlight /\ StartLogin(c, id, LegacyPasskey)
  \/ \E c \in Calls : NoCallInFlight /\ StartRegister(c, <<115, 49>>, <<80>>)
  \/ \E o \in Ops : OpStep(o)
  \/ \E o \in Ops, p \in Payloads : Dashboard /\ StartSave(o, <<65>>, p, operatorId)
  \/ \E o \in Ops : Dashboard /\ StartDelete(o, <<65>>)
  \/ \E o \in Ops : Dashboard /\ StartGet(o, operatorId)
  \/ \E o \in Ops : Dashboard /\ StartPurge(o, operatorId)
  \/ \E o \in Ops : Dashboard /\ StartLogsRead(o, operatorId, DEFAULT_LIMIT)

AppSpec == StoreInit /\ [][AppNext]_vars

\* One invocation at a time: an invocation starts when no other is in flight.
NextSeq ==
  \/ Environment
  \/ \E c \in Calls : CallStep(c)
  \/ \E c \in Calls, id \in RawIds, passkey \in Passkeys :
       NoCallInFlight /\ StartLogin(c, id, passkey)
  \/ \E c \in Calls, id \in RawIds, passkey \in Passkeys :
       NoCallInFlight /\ StartRegister(c, id, passkey)

SeqSpec == Init /\ [][NextSeq]_vars

\* Logins only, on a registry an earlier page life left: operator "X", and
\* with or without operator "S1", enrolled with passkey "P".
SecondId == <<83, 49>>
SecondPasskey == <<80>>
SecondSalt == [i \in 1..SALT_BYTES |-> (7 * i) % 256]
SecondUser ==
  UserProfile(SecondId, deriveHash(SecondPasskey, SecondSalt, PBKDF2_ITERATIONS),
              SecondSalt, PBKDF2_ITERATIONS)

LoginInit ==
  /\ now \in ClockGrid
  /\ mounted = TRUE
  /\ isAuthenticated = FALSE
  /\ operatorId = NULL
  /\ error = NoError
  /\ session = NoSession
  /\ db = FALSE
  /\ logs = {}
  /\ userTxns = <<>>
  /\ logTxns = <<>>
  /\ calls = [c \in Calls |-> IdleCall]
  /\ investigations = <<>>
  /\ invTxns = <<>>
  /\ ops = [o \in Ops |-> IdleOp]
  /\ AppIdle
  /\ \/ /\ users = (LegacyId :> LegacyUser)
        /\ enrolled = (LegacyId :> LegacyPasskey)
     \/ /\ users = (LegacyId :> LegacyUser) @@ (SecondId :> SecondUser)
        /\ enrolled = (LegacyId :> LegacyPasskey) @@ (SecondId :> SecondPasskey)

LoginStep(c) ==
  \/ LoginLocate(c)
  \/ LoginDenyUnknown(c)
  \/ LoginDerive(c)
  \/ LoginCompare(c)

LoginNext ==
  \/ \E c \in Calls, id \in RawIds, passkey \in Passkeys : StartLogin(c, id, passkey)
  \/ \E c \in Calls : LoginStep(c)
  \/ LogTxnComplete
  \/ Tick

LoginSpec == LoginInit /\ [][LoginNext]_vars

\* The side effects on the audit log under fair scheduling: logins of "x" and
\* "s1", a register of "s1", and saves of the finished analysis "A" for the
\* operator of the session, on the registry of operator "X".  A transaction
\* that was created finishes, one way or the other; a promise that can resume
\* does.
FairInit ==
  /\ now = 0
  /\ mounted = TRUE
  /\ isAuthenticated = FALSE
  /\ operatorId = NULL
  /\ error = NoError
  /\ session = NoSession
  /\ db = FALSE
  /\ logs = {}
  /\ userTxns = <<>>
  /\ logTxns = <<>>
  /\ calls = [c \in Calls |-> IdleCall]
  /\ investigations = <<>>
  /\ invTxns = <<>>
  /\ ops = [o \in Ops |-> IdleOp]
  /\ AppIdle
  /\ users = (LegacyId :> LegacyUser)
  /\ enrolled = (LegacyId :> LegacyPasskey)

TxnFinish(o) == SaveComplete(o) \/ InvTxnAbort(o)

FairNext ==
  \/ \E c \in Calls, id \in {<<120>>, <<115, 49>>} : StartLogin(c, id, LegacyPasskey)
  \/ \E c \in Calls : StartRegister(c, <<115, 49>>, SecondPasskey)
  \/ \E c \in Calls : CallStep(c)
  \/ \E o \in Ops :
       /\ Truthy(operatorId)
       /\ StartSave(o, <<65>>, [isAnalyzing |-> FALSE, result |-> [verdict |-> "DEEPFAKE"]],
                    operatorId)
  \/ \E o \in Ops : TxnFinish(o)
  \/ LogTxnComplete

FairSpec ==
  /\ FairInit /\ [][FairNext]_vars
  /\ WF_vars(LogTxnComplete)
  /\ \A c \in Calls : WF_vars(CallStep(c))
  /\ \A o \in Ops : WF_vars(TxnFinish(o))

\* ------------------------------------------------ App: the analysis queue

SetJob(j, rec) == jobs' = [jobs EXCEPT ![j] = rec]

\* Handlers are numbered in the order they are called.
FreeJob(j) ==
  /\ jobs[j].kind = "none"
  /\ \A d \in Jobs : d < j => jobs[d].kind # "none"

\* The dashboard, with its handlers, is rendered for an authenticated operator.
Rendered == isAuthenticated /\ Truthy(operatorId)

\* { ...base, ...patch }; spreading undefined adds nothing.
Spread(base, patch) ==
  [k \in DOMAIN base \cup DOMAIN patch |->
     IF k \in DOMAIN patch THEN patch[k] ELSE base[k]]

\* prev => ({ ...prev, [id]: { ...prev[id], ...patch } })
updateAnalysis(prev, id, patch) ==
  LET old == IF id \in DOMAIN prev THEN prev[id] ELSE <<>>
  IN  [k \in DOMAIN prev \cup {id} |-> IF k = id THEN Spread(old, patch) ELSE prev[k]]

\* The file selected gets an id of its own, Date.now() and nine random
\* characters, and an entry in the queue; processFile is set to run later.
handleFilesSelect(j, id) ==
  /\ Rendered
  /\ FreeJob(j)
  /\ id \notin DOMAIN analyses \cup DOMAIN investigations
  /\ \A d \in Jobs : jobs[d].id # id /\ id \notin jobs[d].ids
  /\ analyses' = Spread(analyses,
                        id :> AnalysisState(id, [isAnalyzing |-> FALSE,
                                                 result |-> NoResult]))
  /\ SetJob(j, [IdleJob EXCEPT !.kind = "process", !.pc = "Queued", !.id = id])
  /\ UNCHANGED <<now, mounted, sessionVars, error, storeVars, calls, invVars, idb,
                 inits>>

\* processFile up to its first await: the entry is marked as being analysed and
\* ANALYSIS_START is logged, not awaited.
processFile(j) ==
  /\ jobs[j].kind = "process" /\ jobs[j].pc = "Queued"
  /\ analyses' = updateAnalysis(analyses, jobs[j].id, [isAnalyzing |-> TRUE])
  /\ IF Truthy(operatorId)
       THEN \E ok \in BOOLEAN, r \in SuffixDraws(now) :
              logAction(ok, now, r, operatorId, "ANALYSIS_START",
                        <<"Target: ", <<102>> \o jobs[j].id>>)
       ELSE UNCHANGED <<db, logTxns>>
  /\ SetJob(j, [jobs[j] EXCEPT !.pc = "Analyzing"])
  /\ UNCHANGED <<now, mounted, sessionVars, error, users, logs, userTxns, enrolled,
                 calls, invVars, idb, inits>>

\* analyzeMedia resolves: the final state goes into the queue and, for an
\* operator, to saveInvestigation.
AnalysisDone(j, o) ==
  /\ jobs[j].kind = "process" /\ jobs[j].pc = "Analyzing"
  /\ LET id == jobs[j].id
         p == [isAnalyzing |-> FALSE, result |-> [verdict |-> "DEEPFAKE"]]
         finalState == AnalysisState(id, p)
     IN  /\ analyses' = updateAnalysis(analyses, id, finalState)
         /\ IF Truthy(operatorId)
              THEN /\ saveInvestigation(o, id, p, operatorId)
                   /\ SetJob(j, [jobs[j] EXCEPT !.pc = "Saving", !.op = o])
              ELSE /\ SetJob(j, [jobs[j] EXCEPT !.pc = "Done"])
                   /\ UNCHANGED <<now, mounted, sessionVars, error, storeVars, calls,
                                  invVars, idb, inits>>

\* analyzeMedia rejects: the entry gets the error.
AnalysisFailed(j) ==
  /\ jobs[j].kind = "process" /\ jobs[j].pc = "Analyzing"
  /\ analyses' = updateAnalysis(analyses, jobs[j].id, [isAnalyzing |-> FALSE])
  /\ SetJob(j, [jobs[j] EXCEPT !.pc = "Done"])
  /\ UNCHANGED <<now, mounted, sessionVars, error, storeVars, calls, invVars, idb,
                 inits>>

\* removeAnalysis(id) up to its await, for an entry of the queue.
removeAnalysis(j, o, id) ==
  /\ Rendered
  /\ FreeJob(j)
  /\ id \in DOMAIN analyses
  /\ deleteInvestigation(o, id)
  /\ SetJob(j, [IdleJob EXCEPT !.kind = "remove", !.id = id, !.op = o,
                               !.pc = IF ops'[o].pc = "Failed" THEN "Failed"
                                      ELSE "Deleting"])
  /\ analyses' = analyses

\* deleteInvestigation resolves and removeAnalysis goes on: the entry leaves
\* the queue.
RemoveDone(j) ==
  /\ jobs[j].kind = "remove" /\ jobs[j].pc = "Deleting"
  /\ DeleteCommitted(jobs[j].op)
  /\ analyses' = [k \in DOMAIN analyses \ {jobs[j].id} |-> analyses[k]]
  /\ SetJob(j, [jobs[j] EXCEPT !.pc = "Done", !.ids = {jobs[j].id}])

\* The Clear button up to its await.
Clear(j, o) ==
  /\ Rendered
  /\ FreeJob(j)
  /\ getInvestigations(o, "purge", operatorId)
  /\ SetJob(j, [IdleJob EXCEPT !.kind = "clear", !.op = o,
                               !.pc = IF ops'[o].pc = "Failed" THEN "Failed"
                                      ELSE "Purging"])
  /\ analyses' = analyses

\* clearOperatorInvestigations resolves and the handler goes on: the queue is
\* emptied.  ids: what the Clear removed, from the store and from the queue.
ClearDone(j) ==
  /\ jobs[j].kind = "clear" /\ jobs[j].pc = "Purging"
  /\ ops[jobs[j].op].pc = "Purging"
  /\ PurgeCommitted(jobs[j].op)
  /\ analyses' = <<>>
  /\ SetJob(j, [jobs[j] EXCEPT !.pc = "Done",
                  !.ids = DOMAIN analyses
                          \cup (DOMAIN investigations \ DOMAIN investigations')])

\* The dashboard of operator "X": nothing stored and an empty queue, or the
\* analysis "B" of an earlier day, stored and loaded into the queue.
QueueInit ==
  /\ now = 0
  /\ mounted = TRUE
  /\ isAuthenticated = TRUE
  /\ operatorId = LegacyId
  /\ session = SessionMarker(LegacyId, 0)
  /\ error = NoError
  /\ users = (LegacyId :> LegacyUser)
  /\ enrolled = (LegacyId :> LegacyPasskey)
  /\ logs = {}
  /\ userTxns = <<>>
  /\ logTxns = <<>>
  /\ calls = [c \in Calls |-> IdleCall]
  /\ invTxns = <<>>
  /\ ops = [o \in Ops |-> IdleOp]
  /\ idb = NoDatabase
  /\ inits = [i \in Callers |-> IdleInit]
  /\ jobs = [j \in Jobs |-> IdleJob]
  /\ \/ db = FALSE /\ investigations = <<>> /\ analyses = <<>>
     \/ /\ db = TRUE
        /\ investigations = (<<66>> :> SavedAnalysis(<<66>>, LegacyId))
        /\ analyses = investigations

QueueNext ==
  \/ \E j \in Jobs, id \in InvIds : handleFilesSelect(j, id)
  \/ \E j \in Jobs : processFile(j)
  \/ \E j \in Jobs, o \in Ops : AnalysisDone(j, o)
  \/ \E j \in Jobs : AnalysisFailed(j)
  \/ \E j \in Jobs, o \in Ops, id \in InvIds : removeAnalysis(j, o, id)
  \/ \E j \in Jobs : RemoveDone(j)
  \/ \E j \in Jobs, o \in Ops : Clear(j, o)
  \/ \E j \in Jobs : ClearDone(j)
  \/ \E o \in Ops : SaveComplete(o)
  \/ \E o \in Ops : PurgeSnapshot(o)
  \/ \E o \in Ops : ReadFail(o)
  \/ \E o \in Ops : InvTxnAbort(o)
  \/ LogTxnComplete

QueueSpec == QueueInit /\ [][QueueNext]_vars

\* ------------------------------------------------------------------ claims

\* The session, in memory and in the persisted marker, is the one of operator u.
Established(u) ==
  /\ isAuthenticated
  /\ operatorId = u
  /\ session # NoSession
  /\ session.id = u

\* Invocation c takes a step / takes the step that ends it.
Steps(c) == calls'[c] # calls[c]
Ends(c) == calls[c].pc \notin FinalPcs /\ calls'[c].pc \in FinalPcs

\* Invocation r is a register that succeeded, l has the same id and passkey.
RegisteredSamePair(r, l) ==
  /\ calls[r].kind = "register"
  /\ calls[r].pc = "Registered"
  /\ calls[r].id = calls[l].id
  /\ calls[r].passkey = calls[l].passkey

\* C1: with one invocation at a time, a register whose collision check finds the
\* normalized id free does not fail, and ends with the session of the uppercased
\* id established; a login with the same id and passkey that follows it
\* immediately is granted and ends with that session established too.
C1_RegisterThenLogin ==
  [][\A c \in Calls :
       LET u == toUpperCase(calls[c].id)
       IN  /\ ( /\ calls[c].kind = "register"
                /\ calls[c].pc = "Checking"
                /\ Steps(c)
                /\ db'
                /\ u \notin DOMAIN users )
               => calls'[c].pc = "Hashing"
           /\ ( /\ calls[c].kind = "register"
                /\ calls[c].pc \in {"Hashing", "Saving"}
                /\ Steps(c) )
               => /\ calls'[c].pc # "Failed"
                  /\ calls'[c].pc = "Registered" => Established(u)'
           /\ ( /\ c > 1
                /\ calls[c].kind = "login"
                /\ Ends(c)
                /\ RegisteredSamePair(c - 1, c) )
               => /\ calls'[c].pc = "Granted"
                  /\ Established(u)'
  ]_vars

\* C1 witness: register("s1", p) succeeded, login("s1", p) was granted, and the
\* session is the one of "S1".
C1_Witness ==
  /\ MaxCalls >= 2
  /\ RegisteredSamePair(1, 2)
  /\ calls[1].id = <<115, 49>>
  /\ calls[2].kind = "login"
  /\ calls[2].pc = "Granted"
  /\ Established(<<83, 49>>)

\* C2: a login whose passkey is not the one the stored record was derived from
\* ends with InvalidCredentials, queues exactly one LOGIN_FAIL entry for the
\* normalized id and leaves the session as it was.
C2_WrongPasskeyDenied ==
  [][\A c \in Calls :
       ( /\ calls[c].kind = "login"
         /\ calls[c].pc = "Comparing"
         /\ Steps(c)
         /\ calls[c].passkey # calls[c].enrolled )
       => /\ calls'[c].pc = "Denied"
          /\ calls'[c].outcome = ERR_INVALID
          /\ Len(logTxns') = Len(logTxns) + 1
          /\ logTxns'[Len(logTxns')].action = "LOGIN_FAIL"
          /\ logTxns'[Len(logTxns')].operatorId = toUpperCase(calls[c].id)
          /\ UNCHANGED sessionVars
  ]_vars

\* C3: a register whose uppercased id is the key of a stored user fails with
\* DuplicateIdentity, having derived no hash and issued no write, and no step of
\* it changes the stored users, the audit log or the session.
C3_DuplicateRejected ==
  [][\A c \in Calls :
       /\ ( /\ calls'[c].kind = "register"
            /\ calls[c].pc \in {"Idle", "Checking"}
            /\ Steps(c)
            /\ db' \/ calls[c].pc = "Idle"
            /\ toUpperCase(calls'[c].id) \in DOMAIN users )
           => /\ calls[c].pc = "Checking"
                   => /\ calls'[c].pc = "Failed"
                      /\ calls'[c].outcome = ERR_DUPLICATE
                      /\ calls'[c].hash = NoHash
              /\ UNCHANGED <<users, userTxns, logs, logTxns, sessionVars>>
  ]_vars

\* C3 witness: register("x", _) was rejected as a duplicate of the stored "X".
C3_Witness ==
  \E c \in Calls :
    /\ calls[c].kind = "register"
    /\ calls[c].id = <<120>>
    /\ calls[c].outcome = ERR_DUPLICATE
    /\ <<88>> \in DOMAIN users

\* C4: a stored user record stays stored and its passwordHash, salt and
\* iterations never change, whatever the interleaving of the invocations.
C4_RecordsNeverChange ==
  [][\A k \in DOMAIN users : k \in DOMAIN users' /\ users'[k] = users[k]]_vars

\* C5: login derives with the salt and the iteration count of the record it
\* read, and with the passkey the record was derived from it is granted,
\* whatever the record's iteration count.
C5_StoredWorkFactor ==
  \A c \in Calls :
    (calls[c].kind = "login" /\ calls[c].user # NoUser)
    => /\ calls[c].hash # NoHash
            => /\ calls[c].hash.iterations = calls[c].user.iterations
               /\ arrayBufferToBase64(calls[c].hash.salt) = calls[c].user.salt
       /\ (calls[c].pc \in FinalPcs /\ calls[c].passkey = calls[c].enrolled)
            => calls[c].pc = "Granted"

\* C5 witness: a login was granted against a record whose iteration count is
\* not the default one.
C5_Witness ==
  \E c \in Calls :
    /\ calls[c].kind = "login"
    /\ calls[c].pc = "Granted"
    /\ calls[c].user.iterations = LegacyIterations
    /\ LegacyIterations # PBKDF2_ITERATIONS

IsLetter(ch) == (ch >= 65 /\ ch <= 90) \/ (ch >= 97 /\ ch <= 122)
\* a and b differ at most in the case of letters.
SameUpToCase(a, b) ==
  /\ Len(a) = Len(b)
  /\ \A i \in 1..Len(a) :
       \/ a[i] = b[i]
       \/ IsLetter(a[i]) /\ IsLetter(b[i]) /\ (a[i] - b[i] = 32 \/ b[i] - a[i] = 32)

\* C6: with one invocation at a time, after a successful register(id, p) the
\* login that follows with an id equal to id up to letter case is granted with
\* passkey p, and is denied with InvalidCredentials with a passkey that differs
\* from p in the case of a letter.
C6_CaseRules ==
  \A r \in Calls, l \in Calls :
    ( /\ l = r + 1
      /\ calls[r].kind = "register" /\ calls[r].pc = "Registered"
      /\ calls[l].kind = "login" /\ calls[l].pc \in FinalPcs
      /\ SameUpToCase(calls[r].id, calls[l].id) )
    => /\ calls[l].passkey = calls[r].passkey => calls[l].pc = "Granted"
       /\ ( /\ calls[l].passkey # calls[r].passkey
            /\ SameUpToCase(calls[l].passkey, calls[r].passkey) )
           => calls[l].pc = "Denied" /\ calls[l].outcome = ERR_INVALID

\* C6 witness: register("s1", p) then login("S1", p), granted.
C6_Witness ==
  /\ MaxCalls >= 2
  /\ calls[1].kind = "register" /\ calls[1].pc = "Registered"
  /\ calls[1].id = <<115, 49>>
  /\ calls[2].kind = "login" /\ calls[2].pc = "Granted"
  /\ calls[2].id = <<83, 49>>
  /\ calls[2].passkey = calls[1].passkey

\* C7: a login whose lookup finds no record for the uppercased id waits the
\* artificial delay and then fails with IdentityNotFound; none of its steps
\* touches the session, the stored users or the audit log.
C7_UnknownIdentity ==
  [][\A c \in Calls :
       LET frame == UNCHANGED <<sessionVars, users, userTxns, logs, logTxns>>
       IN  /\ (calls[c].kind = "none" /\ calls'[c].kind = "login") => frame
           /\ ( /\ calls[c].kind = "login"
                /\ calls[c].pc = "Locating"
                /\ Steps(c)
                /\ db'
                /\ toUpperCase(calls[c].id) \notin DOMAIN users )
               => /\ calls'[c].pc = "Waiting"
                  /\ calls'[c].wake = now + UNKNOWN_ID_DELAY
                  /\ frame
           /\ ( /\ calls[c].kind = "login"
                /\ calls[c].pc = "Waiting"
                /\ Steps(c) )
               => /\ calls'[c].pc = "Denied"
                  /\ calls'[c].outcome = ERR_NOT_FOUND
                  /\ now' >= calls[c].wake
                  /\ frame
  ]_vars

\* C7 witness: a login was denied with IdentityNotFound, its delay over.
C7_Witness ==
  \E c \in Calls :
    /\ calls[c].kind = "login"
    /\ calls[c].outcome = ERR_NOT_FOUND
    /\ calls[c].wake >= UNKNOWN_ID_DELAY
    /\ now >= calls[c].wake
    /\ toUpperCase(calls[c].id) \notin DOMAIN users

\* C8: the mount effect restores a persisted marker whose expiry is still ahead
\* as the session of its id, and removes a marker whose expiry has passed,
\* leaving the application unauthenticated.
C8_StartupRestore ==
  [][(~mounted /\ mounted')
     => IF session = NoSession
          THEN ~isAuthenticated' /\ session' = NoSession
          ELSE IF now < session.expiry
                 THEN Established(session.id)' /\ session' = session
                 ELSE ~isAuthenticated' /\ operatorId' = NULL /\ session' = NoSession
  ]_vars

\* C8 witness: the marker of "X" was restored at mount, before any invocation.
C8_Witness ==
  /\ mounted
  /\ Established(LegacyId)
  /\ now < session.expiry
  /\ \A c \in Calls : calls[c].kind = "none"

\* C9 (as claimed): whenever the application is authenticated, the current time
\* is earlier than the expiry of its session.
C9_AuthenticatedMeansUnexpired ==
  isAuthenticated => (session # NoSession /\ now < session.expiry)

\* C9 (amended): a step that establishes or restores a session ends with the
\* current time earlier than the session's expiry, and a marker that login or
\* register writes expires 24 hours after the time it is written.
C9_UnexpiredWhenEstablished ==
  [][(isAuthenticated' /\ (~isAuthenticated \/ session' # session))
     => /\ session' # NoSession
        /\ now' < session'.expiry
        /\ session' # session => session'.expiry = now' + 1000 * 60 * 60 * 24
  ]_vars

\* C9 witness: a login has just been granted and its marker written.
C9_Witness ==
  \E c \in Calls :
    /\ calls[c].pc = "Granted"
    /\ Established(toUpperCase(calls[c].id))
    /\ session.expiry = now + 1000 * 60 * 60 * 24

\* The step queues one LOGOUT entry of the operator at the current time.
LogoutEntryQueued ==
  /\ Len(logTxns') = Len(logTxns) + 1
  /\ SubSeq(logTxns', 1, Len(logTxns)) = logTxns
  /\ LET e == logTxns'[Len(logTxns')]
     IN  e.action = "LOGOUT" /\ e.operatorId = operatorId /\ e.timestamp = now

\* C10: every logout ends unauthenticated, with operatorId cleared and the
\* marker removed, while the audit write is at most queued; it queues one LOGOUT
\* entry exactly when a session was active (nothing is queued if the store
\* cannot be opened), and the later fate of that write leaves the session alone.
C10_LogoutNeverBlocked ==
  [][/\ Logout
        => /\ ~isAuthenticated' /\ operatorId' = NULL /\ session' = NoSession
           /\ logs' = logs
           /\ IF isAuthenticated
                THEN LogoutEntryQueued \/ (~db /\ ~db' /\ logTxns' = logTxns)
                ELSE logTxns' = logTxns
     /\ LogTxnComplete => UNCHANGED sessionVars
  ]_vars

\* C10 witness: logged out, the LOGOUT entry still waiting to be written.
C10_Witness ==
  /\ mounted
  /\ ~isAuthenticated /\ operatorId = NULL /\ session = NoSession
  /\ logTxns # <<>>
  /\ logTxns[Len(logTxns)].action = "LOGOUT"

\* Invocation o of the storage engine takes a step.
OpSteps(o) == ops'[o] # ops[o]

\* No entry of that operator, action and time is stored or waiting to be.
Lost(op, action, t) ==
  ~\E e \in logs \cup Range(logTxns) :
     e.operatorId = op /\ e.action = action /\ e.timestamp = t

\* C11: the primary operation reports success whatever becomes of its audit
\* append: a login whose hash matches is granted, a register whose put is
\* committed is registered, a saveInvestigation and a purge whose transaction
\* completes resolve; the step in which an audit add fails changes the outcome
\* of no invocation, nor the error the application shows, nor the session; and
\* a success once reported stays.
C11_AuditFailureSwallowed ==
  [][/\ \A c \in Calls :
          /\ ( /\ calls[c].kind = "login" /\ calls[c].pc = "Comparing"
               /\ Steps(c)
               /\ calls[c].user.passwordHash = calls[c].hash )
              => calls'[c].pc = "Granted" /\ calls'[c].outcome = "ok" /\ error' = error
          /\ ( /\ calls[c].kind = "register" /\ calls[c].pc = "Saving"
               /\ Steps(c)
               /\ users' # users )
              => calls'[c].pc = "Registered" /\ calls'[c].outcome = "ok"
                 /\ error' = error
          /\ calls[c].outcome = "ok" => calls'[c] = calls[c]
     /\ \A o \in Ops :
          /\ ( /\ ops[o].pc \in {"Saving", "Purging"}
               /\ OpSteps(o)
               /\ ops'[o].pc # "Hung" )
              => ops'[o].pc = "Done" /\ ops'[o].outcome = "ok"
          /\ ops[o].outcome = "ok" => ops'[o] = ops[o]
     /\ (LogTxnComplete /\ logs' = logs)
          => /\ UNCHANGED <<calls, error, sessionVars>>
             /\ \A o \in Ops : /\ ops'[o].pc = ops[o].pc
                               /\ ops'[o].outcome = ops[o].outcome
  ]_vars

\* C11 witness: a saveInvestigation of a completed analysis has resolved, and
\* its ANALYSIS_COMPLETE entry is neither stored nor waiting: its add failed.
C11_Witness ==
  \E o \in Ops :
    /\ ops[o].kind = "save" /\ ops[o].pc = "Done" /\ ops[o].outcome = "ok"
    /\ Completed(ops[o].data)
    /\ Lost(ops[o].operatorId, "ANALYSIS_COMPLETE", ops[o].data.timestamp)

\* C12: a register fails at its collision check or not at all: the step that
\* ends it in failure changes neither the stored users nor the session, the
\* invocation has derived no hash and has no put waiting, and it takes no step
\* after it.
C12_RegisterAllOrNothing ==
  [][\A c \in Calls :
       /\ ( /\ calls'[c].kind = "register"
            /\ calls'[c].pc = "Failed"
            /\ calls[c].pc # "Failed" )
           => /\ calls[c].pc = "Checking"
              /\ calls'[c].hash = NoHash
              /\ users' = users
              /\ UNCHANGED sessionVars
              /\ \A i \in DOMAIN userTxns' : userTxns'[i].call # c
       /\ calls[c].pc = "Failed" => calls'[c] = calls[c]
  ]_vars

\* C12 witness: a register failed because the database could not be opened;
\* its id is not stored and there is no session.
C12_Witness ==
  \E c \in Calls :
    /\ calls[c].kind = "register"
    /\ calls[c].pc = "Failed"
    /\ calls[c].outcome = ERR_INIT
    /\ toUpperCase(calls[c].id) \notin DOMAIN users
    /\ ~isAuthenticated /\ session = NoSession

\* C13: no step of the credential service or of the storage engine removes or
\* changes a stored audit entry: every entry stored before a step is stored,
\* the same, after it.
C13_AuditAppendOnly ==
  [][logs \subseteq logs']_vars

\* C13 witness: a purge has deleted records and its BATCH_PURGE entry is stored
\* next to the entries that were stored before it.
C13_Witness ==
  /\ SavedLogs \subseteq logs
  /\ \E o \in Ops :
       /\ ops[o].kind = "purge" /\ ops[o].pc = "Done" /\ ops[o].count > 0
       /\ \E e \in logs : /\ e.action = "BATCH_PURGE"
                          /\ e.operatorId = ops[o].operatorId
                          /\ e.details = PurgeDetails(ops[o].found)

\* The step resolves the getRecentLogs invocation o.
LogsResolved(o) ==
  ops[o].kind = "logs" /\ ops[o].pc = "Reading" /\ ops'[o].pc = "Done"

\* res holds the `limit` most recent of the entries `mine`, latest first; with
\* strict set, no two neighbours are of the same millisecond.
MostRecent(res, mine, limit, strict) ==
  /\ Len(res) <= limit
  /\ Len(res) = IF limit < Cardinality(mine) THEN limit ELSE Cardinality(mine)
  /\ \A i \in DOMAIN res : res[i] \in mine
  /\ \A i, j \in DOMAIN res : i # j => res[i] # res[j]
  /\ \A x \in mine \ Range(res) : \A i \in DOMAIN res : x.timestamp <= res[i].timestamp
  /\ \A i \in 1..(Len(res) - 1) :
       IF strict THEN res[i].timestamp > res[i + 1].timestamp
       ELSE \/ res[i].timestamp > res[i + 1].timestamp
            \/ /\ res[i].timestamp = res[i + 1].timestamp
               /\ SuffixRank(res[i].id[3]) < SuffixRank(res[i + 1].id[3])

\* C14 (as claimed): getRecentLogs resolves with at most limit entries, all of
\* the operator, the most recent ones, each strictly later than the next.
C14_StrictlyDescending ==
  [][\A o \in Ops :
       LogsResolved(o)
       => MostRecent(ops'[o].entries,
                     {x \in logs : x.operatorId = ops[o].operatorId},
                     ops[o].limit, TRUE)
  ]_vars

\* C14 (amended): getRecentLogs resolves with at most limit entries, all of the
\* operator, the most recent ones, none later than the one before it, entries
\* of the same millisecond in the order of their keys; with no entry of the
\* operator it resolves with the empty sequence.
C14_RecentEntries ==
  [][\A o \in Ops :
       LogsResolved(o)
       => LET mine == {x \in logs : x.operatorId = ops[o].operatorId}
          IN  /\ MostRecent(ops'[o].entries, mine, ops[o].limit, FALSE)
              /\ mine = {} => ops'[o].entries = <<>>
  ]_vars

\* C14 witness: a read with limit 1 for an operator with three stored entries,
\* the latest of them later than the other two.
C14_Witness ==
  \E o \in Ops :
    /\ ops[o].kind = "logs" /\ ops[o].pc = "Done" /\ ops[o].limit = 1
    /\ Len(ops[o].entries) = 1
    /\ Cardinality({x \in logs : x.operatorId = ops[o].operatorId}) = 3
    /\ ops[o].entries[1].timestamp = now
    /\ \E x \in logs : x.operatorId = ops[o].operatorId /\ x.timestamp < now

\* The investigation records stored for operator op.
RecordsOf(store, op) ==
  {store[k] : k \in {j \in DOMAIN store : store[j].operatorId = op}}

\* The step queues exactly one audit entry, of the given operator and action.
OneEntryQueued(op, action, details) ==
  /\ Len(logTxns') = Len(logTxns) + 1
  /\ SubSeq(logTxns', 1, Len(logTxns)) = logTxns
  /\ LET e == logTxns'[Len(logTxns')]
     IN  /\ e.operatorId = op /\ e.action = action /\ e.details = details
         /\ e.timestamp = now

\* C15: with one storage operation at a time, a purge for op queues exactly one
\* audit entry, a BATCH_PURGE whose count is the number of op's records stored
\* when it was called, and when it completes no record of op is stored, so
\* that getInvestigations(op) finds none.
C15_PurgeEmptiesAndCounts ==
  [][\A o \in Ops :
       LET op == ops'[o].operatorId
       IN  /\ (ops[o].kind = "none" /\ ops'[o].kind = "purge")
               => logTxns' = logTxns /\ investigations' = investigations
           /\ (ops[o].kind = "purge" /\ ops[o].pc = "Fetching")
               => investigations' = investigations
           /\ (ops[o].kind = "purge" /\ ops[o].pc = "Fetching" /\ ops'[o].pc = "Purging")
               => OneEntryQueued(op, "BATCH_PURGE",
                                 <<"Deleted ", Cardinality(RecordsOf(investigations, op)),
                                   " records.">>)
           /\ (ops[o].kind = "purge" /\ ops[o].pc = "Purging" /\ OpSteps(o))
               => logTxns' = logTxns
           /\ (ops[o].kind = "purge" /\ ops[o].pc = "Purging" /\ ops'[o].pc = "Done")
               => /\ RecordsOf(investigations', op) = {}
                  /\ getAll(investigations', op) = {}
  ]_vars

\* C15 witness: a purge has completed that deleted the one record of its
\* operator and left the record of the other operator.
C15_Witness ==
  \E o \in Ops :
    /\ ops[o].kind = "purge" /\ ops[o].pc = "Done" /\ ops[o].count = 1
    /\ RecordsOf(investigations, ops[o].operatorId) = {}
    /\ DOMAIN investigations # {}
    /\ \E e \in logs \cup Range(logTxns) :
         /\ e.action = "BATCH_PURGE" /\ e.operatorId = ops[o].operatorId
         /\ e.details = <<"Deleted ", 1, " records.">>

\* C16: whatever storage operations interleave with it, the count in the
\* BATCH_PURGE entry of a purge is the number of records that its transaction
\* deleted.
C16_PurgeCountsItsDeletes ==
  [][\A o \in Ops :
       (ops[o].kind = "purge" /\ ops[o].pc = "Purging" /\ ops'[o].pc = "Done")
       => ops[o].count = Cardinality(DOMAIN investigations \ DOMAIN investigations')
  ]_vars

\* C17: when a saveInvestigation completes, the record stored under its id is
\* the payload it was called with, stamped with its operator and the time of
\* the call, whether or not the id was stored before; the records of the other
\* ids and the user records are as they were.
C17_UpsertSemantics ==
  [][\A o \in Ops :
       (ops[o].kind = "save" /\ ops[o].pc = "Saving" /\ ops'[o].pc = "Done")
       => LET d == ops[o].data
          IN  /\ d.id = ops[o].id /\ d.operatorId = ops[o].operatorId
              /\ DOMAIN investigations' = DOMAIN investigations \cup {d.id}
              /\ investigations'[d.id] = d
              /\ \A k \in DOMAIN investigations \ {d.id} :
                   investigations'[k] = investigations[k]
              /\ users' = users
  ]_vars

\* C17 witness: a save for "S1" has replaced the record "A" that was stored for
\* "X", next to the untouched record "B".
C17_Witness ==
  \E o \in Ops :
    /\ ops[o].kind = "save" /\ ops[o].pc = "Done" /\ ops[o].id = <<65>>
    /\ ops[o].operatorId = <<83, 49>>
    /\ <<65>> \in DOMAIN investigations /\ investigations[<<65>>] = ops[o].data
    /\ <<66>> \in DOMAIN investigations
    /\ investigations[<<66>>] = SavedAnalysis(<<66>>, <<83, 49>>)

\* C18: a saveInvestigation that gets to issue its put queues exactly one
\* ANALYSIS_COMPLETE entry of its operator when the analysis is not in progress
\* and has a result, and none otherwise; its later steps queue nothing.
C18_CompletionLogged ==
  [][\A o \in Ops :
       /\ (ops[o].kind = "none" /\ ops'[o].kind = "save" /\ ops'[o].pc = "Saving")
           => LET d == ops'[o].data
              IN  IF ~d.isAnalyzing /\ d.result # NoResult
                    THEN OneEntryQueued(ops'[o].operatorId, "ANALYSIS_COMPLETE",
                                        <<"Target: ", d.fileName, " - Verdict: ",
                                          d.result.verdict>>)
                    ELSE logTxns' = logTxns
       /\ (ops[o].kind = "save" /\ OpSteps(o)) => logTxns' = logTxns
  ]_vars

\* C18 witness: saves of a finished analysis with a verdict and of a finished
\* analysis without one have resolved; one ANALYSIS_COMPLETE entry is stored.
C18_Witness ==
  \E o \in Ops, q \in Ops :
    /\ ops[o].kind = "save" /\ ops[o].pc = "Done"
    /\ ~ops[o].data.isAnalyzing /\ ops[o].data.result # NoResult
    /\ ops[q].kind = "save" /\ ops[q].pc = "Done"
    /\ ~ops[q].data.isAnalyzing /\ ops[q].data.result = NoResult
    /\ logTxns = <<>>
    /\ Cardinality({e \in logs : e.action = "ANALYSIS_COMPLETE"}) = 1

\* C19: getInvestigations(op) resolves with exactly the stored records whose
\* operatorId is op.
C19_RecordsOfOperator ==
  [][\A o \in Ops :
       (ops[o].kind = "get" /\ ops[o].pc = "Fetching" /\ ops'[o].pc = "Done")
       => /\ ops'[o].found = RecordsOf(investigations, ops[o].operatorId)
          /\ \A k \in DOMAIN investigations :
               investigations[k] \in ops'[o].found
                 <=> investigations[k].operatorId = ops[o].operatorId
  ]_vars

\* C19 witness: a read for "X" has resolved with the record of "X" and without
\* the stored record of "S1".
C19_Witness ==
  \E o \in Ops :
    /\ ops[o].kind = "get" /\ ops[o].pc = "Done" /\ ops[o].operatorId = <<88>>
    /\ ops[o].found = {SavedAnalysis(<<65>>, <<88>>)}
    /\ <<66>> \in DOMAIN investigations
    /\ investigations[<<66>>].operatorId = <<83, 49>>

\* C20: when a deleteInvestigation(id) completes, the record of that id is gone
\* and every other record, the users and the audit log are as they were; when
\* the id was not stored it completes all the same and the store is unchanged.
C20_DeleteOne ==
  [][\A o \in Ops :
       /\ (ops[o].kind = "delete" /\ ops[o].pc = "Deleting" /\ ops'[o].pc = "Done")
           => /\ ops'[o].outcome = "ok"
              /\ DOMAIN investigations' = DOMAIN investigations \ {ops[o].id}
              /\ \A k \in DOMAIN investigations' : investigations'[k] = investigations[k]
              /\ ops[o].id \notin DOMAIN investigations
                   => investigations' = investigations
              /\ UNCHANGED <<users, logs, logTxns>>
       /\ (ops[o].kind = "delete" /\ OpSteps(o) /\ ops'[o].pc # "Done")
           => UNCHANGED <<investigations, users, logs, logTxns>>
  ]_vars

\* C20 witness: deleteInvestigation("A") has completed twice; "A" is gone and
\* "B" is still stored.
C20_Witness ==
  /\ MaxOps >= 2
  /\ \A o \in {1, 2} :
       ops[o].kind = "delete" /\ ops[o].pc = "Done" /\ ops[o].id = <<65>>
  /\ DOMAIN investigations = {<<66>>}

\* C21: an operation gets to the store only after its init has returned with
\* the handle set, whether it called init before or after the database was
\* opened; and an init called when the handle is set returns without an open
\* request and without touching the handle or the database.
C21_InitImplicitAndIdempotent ==
  [][\A i \in Callers :
       /\ (inits[i].pc # "Touched" /\ inits'[i].pc = "Touched")
           => /\ inits[i].pc = "Ready"
              /\ db /\ idb.handle # 0 /\ idb.version = DB_VERSION
              /\ inits'[i].used = idb.handle
       /\ (inits[i].pc # "Ready" /\ inits'[i].pc = "Ready") => db'
       /\ (inits[i].pc = "Idle" /\ inits'[i].pc # "Idle" /\ db)
           => /\ inits'[i].pc = "Ready"
              /\ idb' = idb
              /\ db' = db
  ]_vars

\* C21 witness: an operation that called init after the database was opened
\* has gone on to the store, on the handle of the one open there was.
C21_Witness ==
  \E i \in Callers :
    /\ inits[i].pc = "Touched" /\ ~inits[i].opened
    /\ idb.opens = 1 /\ idb.assigned = 1
    /\ inits[i].used = idb.handle

\* C22: the open that sets the handle leaves the database with the three object
\* stores and the three indexes, whatever object stores and indexes it had, and
\* removes no object store, index or record.
C22_UpgradeCompletesSchema ==
  [][(~db /\ db')
     => /\ idb'.stores = StoreNames
        /\ idb'.indexes = IndexNames
        /\ idb.stores \subseteq idb'.stores
        /\ idb.indexes \subseteq idb'.indexes
        /\ UNCHANGED <<users, investigations, logs>>
  ]_vars

\* C29: indexedDB.open is called at most once, and the handle is assigned at
\* most once, however many operations are issued before the first open is done.
C29_OpenedOnce ==
  idb.opens <= 1 /\ idb.assigned <= 1

\* C25: the entries appended by logAction, those whose add is pending and those
\* stored, have pairwise distinct ids, so that no add fails on its key.
C25_DistinctEntryIds ==
  /\ \A i, j \in DOMAIN logTxns : i # j => logTxns[i].id # logTxns[j].id
  /\ \A i \in DOMAIN logTxns : \A x \in logs : x.id # logTxns[i].id

\* C28: isAuthenticated is true exactly when operatorId is set, and then
\* localStorage holds a session marker with that operator's id.
C28_SessionPartsAgree ==
  /\ isAuthenticated <=> operatorId # NULL
  /\ isAuthenticated => session # NoSession /\ session.id = operatorId

\* C28 witness: two calls have ended, one of them with a session established,
\* and the session is the one of the operator who came last.
C28_Witness ==
  /\ isAuthenticated /\ operatorId # NULL
  /\ session # NoSession /\ session.id = operatorId
  /\ \A c \in Calls : calls[c].pc \in FinalPcs
  /\ \E c \in Calls : calls[c].pc \in {"Granted", "Registered"}
                      /\ toUpperCase(calls[c].id) = operatorId

\* The phases of a login: the wait after a lookup that found nothing belongs to
\* the phase of the lookup.
Phase(pc) == IF pc = "Waiting" THEN "Locating" ELSE pc

PhaseAfter(ph) ==
  CASE ph = "Idle" -> {"Locating"}
    [] ph = "Locating" -> {"Locating", "Deriving", "Denied"}
    [] ph = "Deriving" -> {"Comparing"}
    [] ph = "Comparing" -> {"Granted", "Denied"}
    [] OTHER -> {}

\* C26: a step of a login takes it from a phase to the next one in the order
\* Idle, Locating, Deriving, Comparing, or ends it; it ends as Granted or as
\* Denied and stays there; it is Granted only from Comparing with the derived
\* hash equal to the stored one; and a step of a login changes the session only
\* when it ends the login as Granted, setting it to that login's operator.
C26_LoginPhases ==
  [][\A c \in Calls :
       (calls'[c].kind = "login" /\ Steps(c))
       => /\ Phase(calls'[c].pc) \in PhaseAfter(Phase(calls[c].pc))
          /\ calls'[c].pc = "Granted"
               => /\ calls[c].pc = "Comparing"
                  /\ calls[c].hash # NoHash
                  /\ calls[c].user.passwordHash = calls[c].hash
                  /\ isAuthenticated'
                  /\ operatorId' = toUpperCase(calls[c].id)
                  /\ session' # NoSession /\ session'.id = operatorId'
          /\ calls'[c].pc # "Granted" => UNCHANGED sessionVars
  ]_vars

\* C26 witness: one login has ended as Granted with its session established,
\* another one as Denied after the comparison.
C26_Witness ==
  \E c, d \in Calls :
    /\ calls[c].kind = "login" /\ calls[c].pc = "Granted"
    /\ calls[c].user.passwordHash = calls[c].hash
    /\ calls[d].kind = "login" /\ calls[d].pc = "Denied"
    /\ calls[d].outcome = ERR_INVALID
    /\ isAuthenticated /\ operatorId = toUpperCase(calls[c].id)

\* What login(id, passkey) comes to when it runs alone on the registry.
Alone(id, passkey) ==
  LET normalizedId == toUpperCase(id)
  IN  IF normalizedId \notin DOMAIN users THEN ERR_NOT_FOUND
      ELSE LET user == users[normalizedId]
           IN  IF deriveHash(passkey, base64ToArrayBuffer(user.salt), user.iterations)
                    = user.passwordHash
                 THEN "ok" ELSE ERR_INVALID

\* C23: with logins overlapping, each login ends with the outcome it has alone
\* (or with the failure of the open of the database, when it is the one that
\* opens it), issues the add of the audit entry it issues alone, LOGIN or
\* LOGIN_FAIL for its own operator and none for an unknown id, and no step of
\* it changes a user record or the other invocation.
C23_LoginsDoNotInterfere ==
  [][\A c \in Calls :
       (calls'[c].kind = "login" /\ Steps(c))
       => /\ UNCHANGED <<users, enrolled>>
          /\ \A d \in Calls \ {c} : calls'[d] = calls[d]
          /\ Ends(c)
               => LET out == Alone(calls[c].id, calls[c].passkey)
                      op == toUpperCase(calls[c].id)
                  IN  IF calls'[c].outcome = ERR_INIT
                        THEN ~db /\ logTxns' = logTxns
                        ELSE /\ calls'[c].outcome = out
                             /\ out = ERR_NOT_FOUND => logTxns' = logTxns
                             /\ out # ERR_NOT_FOUND
                                  => \E r \in RandomSuffixes :
                                       logTxns' = Append(logTxns,
                                         IF out = "ok"
                                           THEN AuditEntry(now', r, op, "LOGIN",
                                                  "Standard biometric handshake complete.")
                                           ELSE AuditEntry(now', r, op, "LOGIN_FAIL",
                                                  "Invalid passkey provided."))
  ]_vars

\* C23 witness: the login started second, for one operator, was granted while
\* the login started first, for the other operator, is still at its comparison.
C23_Witness ==
  /\ calls[1].kind = "login" /\ calls[1].pc = "Comparing"
  /\ calls[2].kind = "login" /\ calls[2].pc = "Granted"
  /\ toUpperCase(calls[1].id) # toUpperCase(calls[2].id)
  /\ calls[2].outcome = Alone(calls[2].id, calls[2].passkey)
  /\ \E e \in Range(logTxns) \cup logs :
       e.action = "LOGIN" /\ e.operatorId = toUpperCase(calls[2].id)

\* C24: a register that was called comes to an end, as registered or with a
\* failure reported, also when the put of its record or the transaction of the
\* put fails.
C24_RegisterTerminates ==
  \A c \in Calls :
    (calls[c].kind = "register") ~> (calls[c].pc \in {"Registered", "Failed"})

\* C27: with every transaction getting its turn, a login that was granted, a
\* register that succeeded and a saveInvestigation of a finished analysis with
\* a result are followed by a stored LOGIN, REGISTRATION, ANALYSIS_COMPLETE
\* entry of their operator.
C27_SideEffectEntriesStored ==
  /\ \A c \in Calls :
       (calls[c].pc = "Granted")
         ~> (\E e \in logs : /\ e.action = "LOGIN"
                             /\ e.operatorId = toUpperCase(calls[c].id))
  /\ \A c \in Calls :
       (calls[c].pc = "Registered")
         ~> (\E e \in logs : /\ e.action = "REGISTRATION"
                             /\ e.operatorId = toUpperCase(calls[c].id))
  /\ \A o \in Ops :
       (ops[o].kind = "save" /\ ops[o].pc = "Done" /\ Completed(ops[o].data))
         ~> (\E e \in logs : /\ e.action = "ANALYSIS_COMPLETE"
                             /\ e.operatorId = ops[o].operatorId
                             /\ e.timestamp = ops[o].data.timestamp)

\* C30: an id that a completed removeAnalysis or a completed Clear removed is
\* neither in the queue nor in the store, whatever was in flight for it.
C30_RemovedStaysRemoved ==
  \A j \in Jobs :
    (jobs[j].kind \in {"remove", "clear"} /\ jobs[j].pc = "Done")
    => \A id \in jobs[j].ids :
         id \notin DOMAIN analyses /\ id \notin DOMAIN investigations

====
